---- MODULE Spec2Model ----
(***************************************************************************)
(* Verification model of taskw's scan -> validate -> generate pipeline:    *)
(*   - the ignore-pattern filter   (scanner.FileFilter)                    *)
(*   - the parallel aggregator     (scanner.Scanner.scanFilesParallel)     *)
(*   - the validator               (scanner.Validator)                     *)
(*   - the route generator         (generator.RouteGenerator)              *)
(* Go strings are modelled as sequences of one-character strings, so that  *)
(* prefix, suffix, split and comparison act on characters as in the code.  *)
(* Each component has its own specification (SpecMatch, SpecFilter,        *)
(* SpecScan, SpecValidate, SpecRoutes); a specification leaves the         *)
(* variables of the other components at their idle values.                 *)
(***************************************************************************)
EXTENDS Integers, Sequences, FiniteSets, Bags, TLC

VARIABLES
    \* ---- FileFilter.FindCandidateFiles (filepath.Walk) ----
    ignorePatterns,   \* FileFilter.ignorePatterns: defaults, then .taskwignore lines
    tree,             \* the files present under the scan root (root-relative paths)
    todo,             \* paths filepath.Walk still has to hand to the walk function
    visited,          \* root-relative paths the walk function has been called with
    candidates,       \* the candidate list built by the walk function
    walkPc,           \* "walking" | "returned"
    \* ---- FileFilter.matchPattern on one pattern and one path ----
    mPattern,         \* the ignore pattern
    mPath,            \* the root-relative path
    mResult,          \* what matchPattern returned (FALSE before the call)
    mPc,              \* "call" | "done"
    \* ---- Scanner.scanFilesParallel ----
    files,            \* the candidate list handed to scanFilesParallel
    mainPc,           \* "spawn" | "wait" | "returned" (the calling goroutine)
    nextFile,         \* loop index of `for _, file := range files`
    pc,               \* per worker goroutine: position in the func literal
    wg,               \* sync.WaitGroup counter
    sem,              \* number of tokens buffered in the channel sem
    mu,               \* sync.Mutex: 0 when free, else the worker holding it
    fileResult,       \* per worker: what ScanFile returned
    result,           \* the shared *ScanResult
    fset,             \* the ASTScanner's *token.FileSet: the files added to it, in order
    \* ---- Validator.ValidateScanResult ----
    vInput,           \* the ScanResult handed to the validator
    vResult,          \* the ValidationResult
    vPc,              \* "routes" | "handlers" | "matching" | "done"
    \* ---- RouteGenerator.GenerateRoutes ----
    gEnabled,         \* config.Generation.Routes.Enabled
    gRoutes,          \* the routes slice handed to GenerateRoutes
    routesByPackage,  \* GenerateRoutes' routesByPackage
    handlerInfo,      \* GenerateRoutes' handlerInfo
    imports,          \* GenerateRoutes' imports
    gOutput,          \* what the template is executed with: Routes, Imports, Handlers
    gPc,              \* "start" | "organized" | "extracted" | "imported" | "done"
    \* ---- ASTScanner.ScanFile on one file ----
    xFile,            \* the file handed to ASTScanner.ScanFile
    xTodo,            \* the declarations ast.Inspect has not reached yet
    xResult,          \* ScanFile's result
    xPc,              \* "parse" | "inspect" | "associate" | "done" | "failed"
    \* ---- DependencyGenerator.GenerateDependencies ----
    dEnabled,         \* config.Generation.Dependencies.Enabled
    dProviders,       \* the providers slice handed to GenerateDependencies
    providersByPackage,\* GenerateDependencies' providersByPackage
    dImports,         \* GenerateDependencies' imports
    dOutput,          \* what the template is executed with: ProvidersByPackage, Imports
    dPc,              \* "start" | "organized" | "imported" | "done"
    \* ---- the consumers of one completed ScanResult ----
    cScan,            \* the completed ScanResult as the aggregator returned it
    \* ---- the generation service's GenerateRoutes ----
    sEnabled,         \* config.Generation.Routes.Enabled
    sScan,            \* what scanner.ScanRoutes returns: err, Handlers, Routes
    fsFails,          \* the file-system call that fails: "none" | "mkdir" | "write"
    fsFile,           \* the route output file: absent, stale, or written with a content
    sReturn,          \* what GenerateRoutes returned: "none" | "nil" | "error"
    sPc,              \* "start" | "scanned" | "generating" | "returned"
    \* ---- materialising the default ignore file ----
    iOp,              \* which command runs: "init" (handleInit) | "scaffold" (InitGenerator)
    iTemplate,        \* the content the scaffolding writes: the current project's .taskwignore or the default
    iFile,            \* the target .taskwignore: <<>> when absent, else <<content>>
    iHistory,         \* the target before the first run and after each run
    \* ---- Scanner.ScanAll / ScanRoutes / ScanProviders over the scan roots ----
    aCall,            \* which method runs: "ScanAll" | "ScanRoutes" | "ScanProviders"
    aDisk,            \* the source files on the disk
    aScanDirs,        \* config.Paths.ScanDirs, or the directories argument
    aIndex,           \* loop index of `for _, dir := range ...`
    aPerRoot,         \* what ScanDirectory returned, one entry per root scanned so far
    aResult,          \* the accumulated result
    aPc               \* "loop" | "returned" | "failed"

filterVars == <<ignorePatterns, tree, todo, visited, candidates, walkPc>>
matchVars == <<mPattern, mPath, mResult, mPc>>
scanVars == <<files, mainPc, nextFile, pc, wg, sem, mu, fileResult, result, fset>>
validateVars == <<vInput, vResult, vPc>>
routeVars == <<gEnabled, gRoutes, routesByPackage, handlerInfo, imports, gOutput, gPc>>
extractVars == <<xFile, xTodo, xResult, xPc>>
depVars == <<dEnabled, dProviders, providersByPackage, dImports, dOutput, dPc>>
consumeVars == <<cScan>>
serviceVars == <<sEnabled, sScan, fsFails, fsFile, sReturn, sPc>>
ignoreFileVars == <<iOp, iTemplate, iFile, iHistory>>
scanAllVars == <<aCall, aDisk, aScanDirs, aIndex, aPerRoot, aResult, aPc>>
vars == <<filterVars, matchVars, scanVars, validateVars, routeVars, extractVars, depVars, consumeVars, serviceVars, ignoreFileVars, scanAllVars>>

(***************************************************************************)
(* Go's strings package, on sequences of characters.                       *)
(***************************************************************************)

\* The characters the model uses, in byte order (Go compares strings bytewise).
Alphabet ==
    <<" ", "\"", "#", "*", ".", "/", ":", "A", "B", "C", "D", "E", "G", "H", "I", "L", "N", "O", "P", "R", "S", "T", "U",
      "_", "a", "b", "c", "d", "e", "f", "g", "h", "i", "k", "l", "m", "n", "o",
      "p", "r", "s", "t", "u", "v", "w", "x", "y", "z", "{", "}">>

Rank(c) == CHOOSE i \in 1..Len(Alphabet) : Alphabet[i] = c

\* s < t for Go strings: bytewise lexicographic order.
RECURSIVE StrLess(_, _)
StrLess(s, t) ==
    IF t = <<>> THEN FALSE
    ELSE IF s = <<>> THEN TRUE
    ELSE IF s[1] # t[1] THEN Rank(s[1]) < Rank(t[1])
    ELSE StrLess(Tail(s), Tail(t))

HasPrefix(s, prefix) == Len(prefix) <= Len(s) /\ SubSeq(s, 1, Len(prefix)) = prefix

HasSuffix(s, suffix) ==
    Len(suffix) <= Len(s) /\ SubSeq(s, Len(s) - Len(suffix) + 1, Len(s)) = suffix

\* strings.Index: the 0-based position of the first occurrence of substr, or -1.
Index(s, substr) ==
    LET At(i) == SubSeq(s, i + 1, i + Len(substr)) = substr
        hits == {i \in 0..(Len(s) - Len(substr)) : At(i)}
    IN IF hits = {} THEN -1 ELSE CHOOSE i \in hits : \A j \in hits : i <= j

Contains(s, substr) == Index(s, substr) # -1

TrimPrefix(s, prefix) == IF HasPrefix(s, prefix) THEN SubSeq(s, Len(prefix) + 1, Len(s)) ELSE s

TrimSuffix(s, suffix) == IF HasSuffix(s, suffix) THEN SubSeq(s, 1, Len(s) - Len(suffix)) ELSE s

\* strings.Split with a non-empty separator: Count(s, sep) + 1 pieces.
RECURSIVE Split(_, _)
Split(s, sep) ==
    LET i == Index(s, sep)
    IN IF i = -1 THEN <<s>>
       ELSE <<SubSeq(s, 1, i)>> \o Split(SubSeq(s, i + Len(sep) + 1, Len(s)), sep)

\* strings.ReplaceAll with a non-empty old.
RECURSIVE ReplaceAll(_, _, _)
ReplaceAll(s, old, new) ==
    LET i == Index(s, old)
    IN IF i = -1 THEN s
       ELSE SubSeq(s, 1, i) \o new \o ReplaceAll(SubSeq(s, i + Len(old) + 1, Len(s)), old, new)

\* strings.Trim: drop the leading and trailing characters that are in cutset.
RECURSIVE TrimLeft(_, _)
TrimLeft(s, cutset) ==
    IF s # <<>> /\ s[1] \in cutset THEN TrimLeft(Tail(s), cutset) ELSE s

RECURSIVE TrimRight(_, _)
TrimRight(s, cutset) ==
    IF s # <<>> /\ s[Len(s)] \in cutset THEN TrimRight(SubSeq(s, 1, Len(s) - 1), cutset) ELSE s

Trim(s, cutset) == TrimRight(TrimLeft(s, cutset), cutset)

\* strings.Join
RECURSIVE Join(_, _)
Join(elems, sep) ==
    IF elems = <<>> THEN <<>>
    ELSE IF Len(elems) = 1 THEN elems[1]
    ELSE elems[1] \o sep \o Join(Tail(elems), sep)

Range(f) == {f[i] : i \in DOMAIN f}

(***************************************************************************)
(* Ignore-pattern filter: scanner.FileFilter                               *)
(***************************************************************************)

slash == <<"/">>
star == <<"*">>
doubleStar == <<"*", "*">>
dotGo == <<".", "g", "o">>
dot == <<".">>

\* NewFileFilter: the built-in ignore patterns, in the order of the source.
defaultIgnores ==
    << <<"v", "e", "n", "d", "o", "r", "/", "*", "*">>,
       <<"n", "o", "d", "e", "_", "m", "o", "d", "u", "l", "e", "s", "/", "*", "*">>,
       <<".", "g", "i", "t", "/", "*", "*">>,
       <<".", "t", "a", "s", "k", "/", "*", "*">>,
       <<"b", "i", "n", "/", "*", "*">>,
       <<"b", "u", "i", "l", "d", "/", "*", "*">>,
       <<"d", "i", "s", "t", "/", "*", "*">>,
       <<"*", "*", "/", "*", "_", "t", "e", "s", "t", ".", "g", "o">>,
       <<"*", "*", "/", "*", "_", "m", "o", "c", "k", ".", "g", "o">>,
       <<"*", "*", "/", "t", "e", "s", "t", "d", "a", "t", "a", "/", "*", "*">> >>

\* strings.TrimSpace (the model's only white-space character is the blank).
TrimSpace(s) == Trim(s, {" "})

\* loadTaskwIgnore: the defaults, then every line of .taskwignore that is
\* neither blank nor a comment. lines = <<>> also stands for a missing file.
RECURSIVE loadLines(_)
loadLines(lines) ==
    IF lines = <<>> THEN <<>>
    ELSE LET line == TrimSpace(Head(lines))
         IN IF line = <<>> \/ HasPrefix(line, <<"#">>)
            THEN loadLines(Tail(lines))
            ELSE <<line>> \o loadLines(Tail(lines))

loadTaskwIgnore(lines) == defaultIgnores \o loadLines(lines)

\* wildcardMatch: the loop over the pieces of the pattern between '*'s.
RECURSIVE wildcardLoop(_, _, _, _)
wildcardLoop(parts, i, str, index) ==
    IF i > Len(parts) THEN TRUE
    ELSE IF parts[i] = <<>> THEN wildcardLoop(parts, i + 1, str, index)
    ELSE LET pos == Index(SubSeq(str, index + 1, Len(str)), parts[i])
         IN IF pos = -1 THEN FALSE
            ELSE IF i = 1 /\ pos # 0 THEN FALSE
            ELSE wildcardLoop(parts, i + 1, str, index + pos + Len(parts[i]))

wildcardMatch(pattern, str) ==
    LET parts == Split(pattern, star)
    IN IF ~wildcardLoop(parts, 1, str, 0) THEN FALSE
       ELSE IF Len(parts) > 0 /\ parts[Len(parts)] # <<>>
            THEN HasSuffix(str, parts[Len(parts)])
            ELSE TRUE

matchSinglePart(pattern, pathPart) ==
    IF pattern = star THEN TRUE
    ELSE IF ~Contains(pattern, star) THEN pattern = pathPart
    ELSE wildcardMatch(pattern, pathPart)

\* matchParts: every pattern part must match the path part at the same index;
\* path parts beyond the pattern's length are not looked at.
matchParts(patternParts, pathParts) ==
    IF Len(patternParts) > Len(pathParts) THEN FALSE
    ELSE \A i \in 1..Len(patternParts) : matchSinglePart(patternParts[i], pathParts[i])

matchSingleStarPattern(pattern, path) == matchParts(Split(pattern, slash), Split(path, slash))

matchDoubleStarPattern(pattern, path) ==
    LET parts == Split(pattern, doubleStar)
    IN IF Len(parts) # 2
       THEN Contains(path, ReplaceAll(pattern, doubleStar, <<>>))
       ELSE LET prefix == TrimSuffix(parts[1], slash)
                suffix == TrimPrefix(parts[2], slash)
            IN IF prefix # <<>> /\ ~HasPrefix(path, prefix) THEN FALSE
               ELSE IF suffix # <<>>
                    THEN IF Contains(suffix, star)
                         THEN LET pathWithoutPrefix ==
                                      IF prefix # <<>> THEN TrimPrefix(path, prefix \o slash)
                                      ELSE path
                              IN matchSingleStarPattern(suffix, pathWithoutPrefix)
                         ELSE HasSuffix(path, suffix)
                    ELSE TRUE

matchPattern(pattern, path) ==
    IF Contains(pattern, doubleStar) THEN matchDoubleStarPattern(pattern, path)
    ELSE IF Contains(pattern, star) THEN matchSingleStarPattern(pattern, path)
    ELSE IF pattern = path THEN TRUE
    ELSE IF HasSuffix(pattern, slash)
         THEN HasPrefix(path, pattern) \/ HasPrefix(path \o slash, pattern)
         ELSE HasPrefix(path, pattern \o slash)

\* filepath.ToSlash: every os.PathSeparator becomes '/'.
PathSeparator == "/"
ToSlash(path) == ReplaceAll(path, <<PathSeparator>>, slash)

\* shouldIgnore with an explicit pattern list (f.ignorePatterns).
shouldIgnoreWith(patterns, relPath) ==
    LET normalizedPath == ToSlash(relPath)
    IN \E i \in 1..Len(patterns) : matchPattern(patterns[i], normalizedPath)

shouldIgnore(relPath) == shouldIgnoreWith(ignorePatterns, relPath)

(***************************************************************************)
(* Idle values: what a specification gives the variables it does not use.  *)
(***************************************************************************)

IdleFilter ==
    /\ ignorePatterns = <<>> /\ tree = {} /\ todo = <<>> /\ visited = {}
    /\ candidates = <<>> /\ walkPc = "idle"

IdleMatch == mPattern = <<>> /\ mPath = <<>> /\ mResult = FALSE /\ mPc = "idle"

IdleScan ==
    /\ files = <<>> /\ mainPc = "idle" /\ nextFile = 0 /\ pc = <<>> /\ wg = 0
    /\ sem = 0 /\ mu = 0 /\ fileResult = <<>> /\ result = <<>> /\ fset = <<>>

IdleValidate == vInput = <<>> /\ vResult = <<>> /\ vPc = "idle"

IdleExtract == xFile = <<>> /\ xTodo = <<>> /\ xResult = <<>> /\ xPc = "idle"

IdleDeps ==
    /\ dEnabled = FALSE /\ dProviders = <<>> /\ providersByPackage = <<>>
    /\ dImports = <<>> /\ dOutput = <<>> /\ dPc = "idle"

IdleConsume == cScan = <<>>

IdleService ==
    /\ sEnabled = FALSE /\ sScan = <<>> /\ fsFails = "none" /\ fsFile = [state |-> "absent"]
    /\ sReturn = "none" /\ sPc = "idle"

IdleIgnoreFile == iOp = "idle" /\ iTemplate = <<>> /\ iFile = <<>> /\ iHistory = <<>>

IdleScanAll ==
    /\ aCall = "idle" /\ aDisk = {} /\ aScanDirs = <<>> /\ aIndex = 0
    /\ aPerRoot = <<>> /\ aResult = <<>> /\ aPc = "idle"

IdleRoutes ==
    /\ gEnabled = FALSE /\ gRoutes = <<>> /\ routesByPackage = <<>> /\ handlerInfo = <<>>
    /\ imports = <<>> /\ gOutput = <<>> /\ gPc = "idle"

(***************************************************************************)
(* The directory tree under the scan root, and filepath.Walk.              *)
(* A node is named by its root-relative path (what filepath.Rel returns);  *)
(* the root itself is ".".                                                 *)
(***************************************************************************)

\* The files a scan root may contain.
FileUniverse ==
    { <<"v", "e", "n", "d", "o", "r", "/", "x", "/", "y", ".", "g", "o">>,
      <<"v", "e", "n", "d", "o", "r", "x", "/", "z", ".", "g", "o">>,
      <<"a", "/", "b", "/", "c", "_", "t", "e", "s", "t", ".", "g", "o">>,
      <<"a", "/", "b", "/", "k", ".", "g", "o">>,
      <<"a", "/", "h", ".", "g", "o">>,
      <<"c", "_", "t", "e", "s", "t", ".", "g", "o">>,
      <<"c", "_", "t", "e", "s", "t", ".", "g", "o", ".", "b", "a", "k">>,
      <<"m", "a", "i", "n", ".", "g", "o">> }

\* The lines a .taskwignore file may contain.
IgnoreLines ==
    { <<"a">>,
      <<" ", "a", "/", "*">>,
      <<"a", "/", "b", "/">>,
      <<"#", "a">>,
      <<".">>,
      <<"*", "*", "/", "b">>,
      <<"*", ".", "g", "o">> }

MaxIgnoreLines == 1

IgnoreFiles == UNION {[1..n -> IgnoreLines] : n \in 0..MaxIgnoreLines}

\* The directories that exist because a file lies below them.
Dirs(fs) ==
    UNION {{Join(SubSeq(Split(f, slash), 1, k), slash) : k \in 1..(Len(Split(f, slash)) - 1)} :
              f \in fs}

IsDir(n) == n = dot \/ n \in Dirs(tree)

Parent(n) ==
    LET segs == Split(n, slash)
    IN IF Len(segs) = 1 THEN dot ELSE Join(SubSeq(segs, 1, Len(segs) - 1), slash)

Children(d) == {n \in tree \cup Dirs(tree) : Parent(n) = d}

\* The directories a node lies below: the root and every proper path prefix.
Ancestors(n) ==
    LET segs == Split(n, slash)
    IN IF n = dot THEN {}
       ELSE {dot} \cup {Join(SubSeq(segs, 1, k), slash) : k \in 1..(Len(segs) - 1)}

\* filepath.Walk hands the entries of a directory over in lexical order.
RECURSIVE SortStrings(_)
SortStrings(S) ==
    IF S = {} THEN <<>>
    ELSE LET least == CHOOSE x \in S : \A y \in S \ {x} : StrLess(x, y)
         IN <<least>> \o SortStrings(S \ {least})

\* A walk function that never prunes: it returns nil for every directory.
walkFnDirNoSkip(relPath) == "nil"

\* The walk function's answer for a directory: filepath.SkipDir or nil.
walkFnDir(relPath) == IF shouldIgnore(relPath) THEN "SkipDir" ELSE "nil"

InitFilter ==
    /\ ignorePatterns \in {loadTaskwIgnore(lines) : lines \in IgnoreFiles}
    /\ tree \in SUBSET FileUniverse
    /\ todo = <<dot>>
    /\ visited = {}
    /\ candidates = <<>>
    /\ walkPc = "walking"
    /\ IdleMatch /\ IdleScan /\ IdleValidate /\ IdleRoutes /\ IdleExtract /\ IdleDeps /\ IdleConsume /\ IdleService /\ IdleIgnoreFile /\ IdleScanAll

\* The walk function called on a directory (info.IsDir()).
WalkDir ==
    /\ walkPc = "walking" /\ todo # <<>>
    /\ IsDir(Head(todo))
    /\ visited' = visited \cup {Head(todo)}
    /\ todo' = IF walkFnDir(Head(todo)) = "SkipDir"
               THEN Tail(todo)
               ELSE SortStrings(Children(Head(todo))) \o Tail(todo)
    /\ UNCHANGED <<ignorePatterns, tree, candidates, walkPc>>
    /\ UNCHANGED <<matchVars, scanVars, validateVars, routeVars, extractVars, depVars, consumeVars, serviceVars, ignoreFileVars, scanAllVars>>

\* The walk function called on a file.
WalkFile ==
    /\ walkPc = "walking" /\ todo # <<>>
    /\ ~IsDir(Head(todo))
    /\ visited' = visited \cup {Head(todo)}
    /\ todo' = Tail(todo)
    /\ candidates' = IF HasSuffix(Head(todo), dotGo) /\ ~shouldIgnore(Head(todo))
                     THEN Append(candidates, Head(todo))
                     ELSE candidates
    /\ UNCHANGED <<ignorePatterns, tree, walkPc>>
    /\ UNCHANGED <<matchVars, scanVars, validateVars, routeVars, extractVars, depVars, consumeVars, serviceVars, ignoreFileVars, scanAllVars>>

\* filepath.Walk has nothing left: FindCandidateFiles returns candidates.
WalkReturn ==
    /\ walkPc = "walking" /\ todo = <<>>
    /\ walkPc' = "returned"
    /\ UNCHANGED <<ignorePatterns, tree, todo, visited, candidates>>
    /\ UNCHANGED <<matchVars, scanVars, validateVars, routeVars, extractVars, depVars, consumeVars, serviceVars, ignoreFileVars, scanAllVars>>

NextFilter == WalkDir \/ WalkFile \/ WalkReturn

SpecFilter == InitFilter /\ [][NextFilter]_vars

(***************************************************************************)
(* matchPattern applied to one pattern and one path.                       *)
(***************************************************************************)

MatchPatterns == Range(defaultIgnores) \cup Range(loadLines(SortStrings(IgnoreLines)))

MatchPaths == FileUniverse \cup Dirs(FileUniverse) \cup {dot}

InitMatch ==
    /\ mPattern \in MatchPatterns
    /\ mPath \in MatchPaths
    /\ mResult = FALSE
    /\ mPc = "call"
    /\ IdleFilter /\ IdleScan /\ IdleValidate /\ IdleRoutes /\ IdleExtract /\ IdleDeps /\ IdleConsume /\ IdleService /\ IdleIgnoreFile /\ IdleScanAll

Match ==
    /\ mPc = "call"
    /\ mResult' = matchPattern(mPattern, ToSlash(mPath))
    /\ mPc' = "done"
    /\ UNCHANGED <<mPattern, mPath>>
    /\ UNCHANGED <<filterVars, scanVars, validateVars, routeVars, extractVars, depVars, consumeVars, serviceVars, ignoreFileVars, scanAllVars>>

NextMatch == Match

SpecMatch == InitMatch /\ [][NextMatch]_vars

(***************************************************************************)
(* Source extractor, as far as the aggregator needs it: ASTScanner.ScanFile *)
(* A source file is its path, its package clause, whether it parses, and   *)
(* its function declarations as the extractor classifies them.             *)
(***************************************************************************)

GET == <<"G", "E", "T">>
POST == <<"P", "O", "S", "T">>
DELETE == <<"D", "E", "L", "E", "T", "E">>
TRACE == <<"T", "R", "A", "C", "E">>

\* An *ast.FuncDecl as the extractor reads it: Recv is the receiver's type
\* name ("" without a receiver), Params and Results are the type strings of
\* the parameter and result lists, Doc the texts of the doc comment's lines.
FuncDecl(name, recv, params, results, doc) ==
    [node |-> "FuncDecl", Name |-> name, Recv |-> recv, Params |-> params,
     Results |-> results, Doc |-> doc]

\* An *ast.TypeSpec: Type is "struct" or "interface"; handlerMethods says that
\* an interface has a method taking (*fiber.Ctx) and returning error.
TypeSpec(name, type, handlerMethods) ==
    [node |-> "TypeSpec", Name |-> name, Type |-> type, handlerMethods |-> handlerMethods]

fiberCtx == <<"*", "f", "i", "b", "e", "r", ".", "C", "t", "x">>
ginContext == <<"*", "g", "i", "n", ".", "C", "o", "n", "t", "e", "x", "t">>
errorType == <<"e", "r", "r", "o", "r">>
UHandlerType == <<"U", "H", "a", "n", "d", "l", "e", "r">>
HandlerImplType == <<"H", "a", "n", "d", "l", "e", "r", "I", "m", "p", "l">>
HandlerInterfaceName == <<"H", "a", "n", "d", "l", "e", "r">>

\* The doc comment line "// @Router <path> [<method>]".
routerComment(path, method) ==
    <<"/", "/", " ", "@", "R", "o", "u", "t", "e", "r", " ">> \o path \o <<" ", "[">> \o method \o <<"]">>

\* The source files a candidate list may name.
SourceFiles ==
    << [FilePath |-> <<"a", ".", "g", "o">>, Package |-> <<"u">>, syntaxOK |-> TRUE,
        decls |-> << FuncDecl(<<"G">>, UHandlerType, <<fiberCtx>>, <<errorType>>,
                              <<routerComment(<<"/", "x">>, <<"g", "e", "t">>)>>),
                     FuncDecl(<<"P", "r", "o", "v", "i", "d", "e", "P">>, <<>>, <<>>, <<<<"*", "P">>>>, <<>>),
                     TypeSpec(HandlerInterfaceName, "interface", TRUE) >>],
       [FilePath |-> <<"b", ".", "g", "o">>, Package |-> <<"u">>, syntaxOK |-> TRUE,
        decls |-> << FuncDecl(<<"L">>, UHandlerType, <<fiberCtx>>, <<errorType>>,
                              <<routerComment(<<"/", "x">>, <<"G", "E", "T">>)>>),
                     FuncDecl(<<"D">>, UHandlerType, <<fiberCtx>>, <<errorType>>, <<>>),
                     TypeSpec(HandlerImplType, "struct", FALSE),
                     FuncDecl(<<"M">>, HandlerImplType, <<fiberCtx>>, <<errorType>>, <<>>) >>],
       [FilePath |-> <<"c", ".", "g", "o">>, Package |-> <<"o">>, syntaxOK |-> FALSE,
        decls |-> << FuncDecl(<<"G">>, UHandlerType, <<fiberCtx>>, <<errorType>>,
                              <<routerComment(<<"/", "o">>, <<"p", "o", "s", "t">>)>>),
                     FuncDecl(<<"P", "r", "o", "v", "i", "d", "e", "P">>, <<>>, <<>>, <<<<"*", "P">>>>, <<>>) >>],
       [FilePath |-> <<"d", ".", "g", "o">>, Package |-> <<"o">>, syntaxOK |-> FALSE,
        decls |-> << >>] >>

\* The ScanResult scanFilesParallel starts from.
emptyScanResult == [Handlers |-> <<>>, Routes |-> <<>>, Providers |-> <<>>, Errors |-> <<>>]

\* The ScanResult ScanFile starts from.
emptyFileResult ==
    [Handlers |-> <<>>, Routes |-> <<>>, Providers |-> <<>>, Interfaces |-> <<>>,
     Implementations |-> <<>>, Errors |-> <<>>]

\* strings.ToLower on one character of the model's alphabet.
ToLowerChar(c) ==
    CASE c = "A" -> "a" [] c = "B" -> "b" [] c = "C" -> "c" [] c = "D" -> "d"
      [] c = "E" -> "e" [] c = "G" -> "g" [] c = "H" -> "h" [] c = "I" -> "i"
      [] c = "L" -> "l" [] c = "N" -> "n" [] c = "O" -> "o" [] c = "P" -> "p"
      [] c = "R" -> "r" [] c = "S" -> "s" [] c = "T" -> "t" [] c = "U" -> "u"
      [] OTHER -> c

lowerLetters == <<"a", "b", "c", "d", "e", "f", "g", "h", "i", "j", "k", "l", "m", "n", "o", "p", "q", "r", "s", "t", "u", "v", "w", "x", "y", "z">>
upperLetters == <<"A", "B", "C", "D", "E", "F", "G", "H", "I", "J", "K", "L", "M", "N", "O", "P", "Q", "R", "S", "T", "U", "V", "W", "X", "Y", "Z">>

\* strings.ToUpper
ToUpperChar(c) ==
    IF \E i \in 1..26 : lowerLetters[i] = c
    THEN upperLetters[CHOOSE i \in 1..26 : lowerLetters[i] = c]
    ELSE c

ToUpper(s) == [i \in 1..Len(s) |-> ToUpperChar(s[i])]

generateHandlerRef(handler) ==
    LET handlerName == handler.Package \o <<"H", "a", "n", "d", "l", "e", "r">>
    IN <<ToLowerChar(handlerName[1])>> \o Tail(handlerName) \o dot \o handler.FunctionName

\* getReceiverTypeName: the name behind *T or T, "" for anything else.
getReceiverTypeName(fn) == fn.Recv

isHandlerImplementation(name) ==
    \/ name = <<"H", "a", "n", "d", "l", "e", "r", "I", "m", "p", "l">>
    \/ HasSuffix(name, <<"I", "m", "p", "l", "e", "m", "e", "n", "t", "a", "t", "i", "o", "n">>)
    \/ HasSuffix(name, <<"I", "m", "p", "l">>)
    \/ (HasSuffix(name, <<"H", "a", "n", "d", "l", "e", "r">>) /\ Contains(name, <<"I", "m", "p", "l">>))

hasFiberCtxParam(fn) == Len(fn.Params) = 1 /\ fn.Params[1] \in {fiberCtx, ginContext}

returnsError(fn) == fn.Results # <<>> /\ fn.Results[Len(fn.Results)] = errorType

hasErrorReturnType(fn) == Len(fn.Results) = 2 /\ fn.Results[2] = errorType

\* extractHandler: <<>> for nil, else <<the HandlerFunction>>.
extractHandler(fn, pkg, filePath) ==
    LET handlerName == getReceiverTypeName(fn)
    IN IF handlerName = <<>> THEN <<>>
       ELSE IF ~HasSuffix(handlerName, <<"H", "a", "n", "d", "l", "e", "r">>) /\ ~isHandlerImplementation(handlerName)
       THEN <<>>
       ELSE IF ~hasFiberCtxParam(fn) THEN <<>>
       ELSE IF ~returnsError(fn) THEN <<>>
       ELSE << [FunctionName |-> fn.Name, Package |-> pkg, HandlerName |-> handlerName,
                ImplementerName |-> <<>>, IsInterfaceBased |-> FALSE,
                FilePath |-> filePath] >>

\* The regular-expression classes of extractRoute's patterns.
spaceChars == {" ", "\t"}
letterChars == Range(lowerLetters) \cup Range(upperLetters)

\* The first position at or after i whose character is in stop (Len(s) + 1
\* when there is none): the end of a greedy run of [^stop].
RECURSIVE skipUntil(_, _, _)
skipUntil(s, i, stop) ==
    IF i > Len(s) \/ s[i] \in stop THEN i ELSE skipUntil(s, i + 1, stop)

\* The first position at or after i whose character is not in class: the end
\* of a greedy run of [class].
RECURSIVE skipWhile(_, _, _)
skipWhile(s, i, class) ==
    IF i > Len(s) \/ s[i] \notin class THEN i ELSE skipWhile(s, i + 1, class)

\* (?i)@Router at position i.
routerTagAt(text, i) ==
    /\ i + 6 <= Len(text)
    /\ [k \in 1..7 |-> ToLowerChar(text[i + k - 1])] = <<"@", "r", "o", "u", "t", "e", "r">>

\* The matchers below bind every position once (a singleton set per
\* position), in the order the regular expression consumes the text.

\* (?i)@Router\s+([^\s\[\]]+)\s+\[([^\]]+)\] matched at position i:
\* <<path, method>> or <<>>.
matchStandardAt(text, i) ==
    IF ~routerTagAt(text, i) THEN <<>>
    ELSE CHOOSE r \in
             UNION {UNION {UNION {
                 {IF /\ j > i + 7 /\ k > j /\ l > k
                     /\ l <= Len(text) /\ text[l] = "["
                     /\ m > l + 1 /\ m <= Len(text)
                  THEN <<SubSeq(text, j, k - 1), SubSeq(text, l + 1, m - 1)>>
                  ELSE <<>> :
                     m \in {skipUntil(text, l + 1, {"]"})}} :
                 l \in {skipWhile(text, k, spaceChars)}} :
                 k \in {skipUntil(text, j, spaceChars \cup {"[", "]"})}} :
                 j \in {skipWhile(text, i + 7, spaceChars)}} : TRUE

\* (?i)@Router\s+"([^"]+)"\s+\[([^\]]+)\] matched at position i.
matchQuotedAt(text, i) ==
    IF ~routerTagAt(text, i) THEN <<>>
    ELSE CHOOSE r \in
             UNION {UNION {UNION {
                 {IF /\ j > i + 7 /\ j <= Len(text) /\ text[j] = "\""
                     /\ k > j + 1 /\ k <= Len(text)
                     /\ l > k + 1 /\ l <= Len(text) /\ text[l] = "["
                     /\ m > l + 1 /\ m <= Len(text)
                  THEN <<SubSeq(text, j + 1, k - 1), SubSeq(text, l + 1, m - 1)>>
                  ELSE <<>> :
                     m \in {skipUntil(text, l + 1, {"]"})}} :
                 l \in {skipWhile(text, k + 1, spaceChars)}} :
                 k \in {skipUntil(text, j + 1, {"\""})}} :
                 j \in {skipWhile(text, i + 7, spaceChars)}} : TRUE

\* (?i)@Router\s+([^\s]+)\s+([A-Za-z]+)(?:\s|$) matched at position i.
matchAlternativeAt(text, i) ==
    IF ~routerTagAt(text, i) THEN <<>>
    ELSE CHOOSE r \in
             UNION {UNION {UNION {
                 {IF /\ j > i + 7 /\ k > j /\ l > k /\ m > l
                     /\ (m > Len(text) \/ text[m] \in spaceChars)
                  THEN <<SubSeq(text, j, k - 1), SubSeq(text, l, m - 1)>>
                  ELSE <<>> :
                     m \in {skipWhile(text, l, letterChars)}} :
                 l \in {skipWhile(text, k, spaceChars)}} :
                 k \in {skipUntil(text, j, spaceChars)}} :
                 j \in {skipWhile(text, i + 7, spaceChars)}} : TRUE

\* routerPatterns, in the order of the source; the fourth is the first again.
routerPatterns == <<"standard", "quoted", "alternative", "standard">>

matchAt(pattern, text, i) ==
    CASE pattern = "standard" -> matchStandardAt(text, i)
      [] pattern = "quoted" -> matchQuotedAt(text, i)
      [] pattern = "alternative" -> matchAlternativeAt(text, i)

\* pattern.FindStringSubmatch(text): the leftmost match, <<>> for nil.
RECURSIVE findFrom(_, _, _)
findFrom(pattern, text, i) ==
    IF i > Len(text) THEN <<>>
    ELSE CHOOSE r \in {IF here # <<>> THEN here ELSE findFrom(pattern, text, i + 1) :
                          here \in {matchAt(pattern, text, i)}} : TRUE

FindStringSubmatch(pattern, text) == findFrom(pattern, text, 1)

isValidHTTPMethod(method) ==
    method \in {<<"G", "E", "T">>, <<"P", "O", "S", "T">>, <<"P", "U", "T">>, <<"D", "E", "L", "E", "T", "E">>, <<"P", "A", "T", "C", "H">>, <<"H", "E", "A", "D">>, <<"O", "P", "T", "I", "O", "N", "S">>,
                <<"T", "R", "A", "C", "E">>, <<"C", "O", "N", "N", "E", "C", "T">>}

\* The text extractRoute matches the patterns against.
commentText(comment) ==
    TrimSpace(TrimPrefix(TrimSpace(TrimPrefix(comment, <<"/", "/">>)), <<"*">>))

\* An extractRoute that records the method as the annotation spells it.
routeFromMatchesAsWritten(fn, handler, matches) ==
    IF matches = <<>> THEN <<>>
    ELSE CHOOSE r \in
             {<< [MethodName |-> fn.Name, Path |-> Trim(matches[1], {"\"", "'"}),
                  HTTPMethod |-> method, HandlerRef |-> generateHandlerRef(handler),
                  Package |-> handler.Package] >> :
                 method \in {TrimSpace(matches[2])}} : TRUE

\* What extractRoute does with the submatches of one pattern on one comment:
\* <<>> when the pattern did not match or the method is not valid (continue).
routeFromMatches(fn, handler, matches) ==
    IF matches = <<>> THEN <<>>
    ELSE CHOOSE r \in
             {IF ~isValidHTTPMethod(method) THEN <<>>
              ELSE << [MethodName |-> fn.Name, Path |-> Trim(matches[1], {"\"", "'"}),
                       HTTPMethod |-> method, HandlerRef |-> generateHandlerRef(handler),
                       Package |-> handler.Package] >> :
                 method \in {ToUpper(TrimSpace(matches[2]))}} : TRUE

\* One (comment, pattern) attempt of extractRoute's loops.
routeAttempt(fn, handler, comment, pattern) ==
    CHOOSE r \in
        UNION {{routeFromMatches(fn, handler, matches) :
                   matches \in {FindStringSubmatch(pattern, text)}} :
               text \in {commentText(comment)}} : TRUE

\* extractRoute's loops from comment c, pattern p on: the first attempt that
\* returns a route.
RECURSIVE routeFrom(_, _, _, _)
routeFrom(fn, handler, c, p) ==
    IF c > Len(fn.Doc) THEN <<>>
    ELSE IF p > Len(routerPatterns) THEN routeFrom(fn, handler, c + 1, 1)
    ELSE CHOOSE r \in {IF route # <<>> THEN route ELSE routeFrom(fn, handler, c, p + 1) :
                          route \in {routeAttempt(fn, handler, fn.Doc[c], routerPatterns[p])}} :
             TRUE

\* extractRoute: <<>> for nil, else <<the RouteMapping>>.
extractRoute(fn, handler) ==
    IF fn.Doc = <<>> THEN <<>> ELSE routeFrom(fn, handler, 1, 1)

\* extractProvider: <<>> for nil, else <<the ProviderFunction>>.
extractProvider(fn, pkg, filePath) ==
    IF ~HasPrefix(fn.Name, <<"P", "r", "o", "v", "i", "d", "e">>) THEN <<>>
    ELSE IF fn.Results = <<>> THEN <<>>
    ELSE IF fn.Results[1] = <<>> THEN <<>>
    ELSE LET returnType == IF fn.Results[1] = HandlerInterfaceName /\ hasErrorReturnType(fn)
                           THEN pkg \o dot \o fn.Results[1]
                           ELSE fn.Results[1]
         IN << [FunctionName |-> fn.Name, Package |-> pkg, ReturnType |-> returnType,
                Parameters |-> SelectSeq(fn.Params, LAMBDA t : t # <<>>),
                FilePath |-> filePath] >>

\* The route of a function extractHandler returned `handler` for.
routeOfHandler(fn, handler) ==
    IF handler = <<>> THEN <<>> ELSE extractRoute(fn, handler[1])

processFuncDecl(fn, pkg, filePath, res) ==
    CHOOSE r \in
        {[res EXCEPT !.Handlers = @ \o handler,
                     !.Routes = @ \o routeOfHandler(fn, handler),
                     !.Providers = @ \o extractProvider(fn, pkg, filePath)] :
            handler \in {extractHandler(fn, pkg, filePath)}} : TRUE

isHandlerInterface(ts) == ts.Name = HandlerInterfaceName /\ ts.handlerMethods

processTypeSpec(ts, pkg, filePath, res) ==
    IF ts.Type = "interface" /\ isHandlerInterface(ts)
    THEN [res EXCEPT !.Interfaces =
              Append(@, [InterfaceName |-> ts.Name, Package |-> pkg, FilePath |-> filePath])]
    ELSE IF ts.Type = "struct" /\ isHandlerImplementation(ts.Name)
    THEN [res EXCEPT !.Implementations =
              Append(@, [StructName |-> ts.Name, Package |-> pkg,
                         InterfaceName |-> <<>>, FilePath |-> filePath])]
    ELSE res

\* The callback ast.Inspect runs on one node of the file.
inspectNode(n, pkg, filePath, res) ==
    IF n.node = "FuncDecl" THEN processFuncDecl(n, pkg, filePath, res)
    ELSE processTypeSpec(n, pkg, filePath, res)

\* ast.Inspect over the declarations of a parsed file.
RECURSIVE inspectDecls(_, _, _, _)
inspectDecls(decls, pkg, filePath, res) ==
    IF decls = <<>> THEN res
    ELSE CHOOSE r \in {inspectDecls(Tail(decls), pkg, filePath, next) :
                          next \in {inspectNode(Head(decls), pkg, filePath, res)}} : TRUE

\* createInterfaceBasedHandlers: one more HandlerFunction for every pair of a
\* handler and an implementation struct of its package that it is a method of.
RECURSIVE newHandlersFor(_, _)
newHandlersFor(handler, impls) ==
    IF impls = <<>> THEN <<>>
    ELSE LET impl == Head(impls)
         IN (IF impl.Package = handler.Package /\ handler.HandlerName = impl.StructName
             THEN << [FunctionName |-> handler.FunctionName, Package |-> handler.Package,
                      HandlerName |-> impl.InterfaceName,
                      ImplementerName |-> impl.StructName, IsInterfaceBased |-> TRUE,
                      FilePath |-> handler.FilePath] >>
             ELSE <<>>) \o newHandlersFor(handler, Tail(impls))

RECURSIVE newHandlers(_, _)
newHandlers(handlers, impls) ==
    IF handlers = <<>> THEN <<>>
    ELSE newHandlersFor(Head(handlers), impls) \o newHandlers(Tail(handlers), impls)

createInterfaceBasedHandlers(res) ==
    CHOOSE r \in {[found EXCEPT !.Handlers = @ \o newHandlers(found.Handlers, found.Implementations)] :
                     found \in {res}} : TRUE

\* The implementations after the association loop: InterfaceName is "Handler"
\* where the result holds a Handler interface of the same package.
associated(res) ==
    [i \in 1..Len(res.Implementations) |->
        IF \E k \in 1..Len(res.Interfaces) :
               /\ res.Interfaces[k].Package = res.Implementations[i].Package
               /\ res.Interfaces[k].InterfaceName = HandlerInterfaceName
        THEN [res.Implementations[i] EXCEPT !.InterfaceName = HandlerInterfaceName]
        ELSE res.Implementations[i]]

associateInterfacesWithImplementations(res) ==
    CHOOSE r \in {createInterfaceBasedHandlers([found EXCEPT !.Implementations = associated(found)]) :
                     found \in {res}} : TRUE

\* What ScanFile returns for a file that parses.
scanParsedFile(file) ==
    CHOOSE r \in {associateInterfacesWithImplementations(inspected) :
                     inspected \in {inspectDecls(file.decls, file.Package, file.FilePath,
                                                 emptyFileResult)}} : TRUE

\* A ScanFile that hands back what it extracted although the parser failed.
ScanFileDespiteError(file) ==
    [err |-> FALSE, res |-> scanParsedFile(file)]

\* ScanFile: (nil, err) when parser.ParseFile fails, else (result, nil).
ScanFile(file) ==
    IF ~file.syntaxOK
    THEN [err |-> TRUE, res |-> emptyFileResult]
    ELSE [err |-> FALSE, res |-> scanParsedFile(file)]

(***************************************************************************)
(* ASTScanner.ScanFile on one file, one ast.Inspect callback at a time.    *)
(***************************************************************************)

\* The receiver types, parameter lists and result lists of the method.
ExtractReceivers == {UHandlerType, HandlerImplType, <<"S", "v", "c">>, <<>>}
ExtractParams == {<<fiberCtx>>, <<>>}
\* Result lists: (error), none, and one result whose type getTypeString
\* cannot spell (a func or chan type), modelled by the empty type string.
ExtractResults == {<<errorType>>, <<>>, <<<<>>>>}

\* The <path> and <method> texts of a "@Router <path> [<method>]" line.
RouterPaths == {<<"/", "x">>, <<"/", "u", "/", ":", "i", "d">>}
RouterMethods == {<<"g", "e", "t">>, <<"G", "E", "T">>, <<"P", "o", "s", "t">>, <<"f", "o", "o">>}

\* Doc comments that are one "@Router <path> [<method>]" line, with the
\* <path> and <method> they were written from.
AnnotatedDocs ==
    {[Doc |-> <<routerComment(p, m)>>, annotated |-> TRUE, path |-> p, method |-> m] :
        p \in RouterPaths, m \in RouterMethods}

\* Other doc comments: none, the quoted and the bracket-less formats, a
\* description line in front, two @Router lines.
OtherDocs ==
    {[Doc |-> d, annotated |-> FALSE, path |-> <<>>, method |-> <<>>] :
        d \in { <<>>,
                <<<<"/", "/", " ", "@", "R", "o", "u", "t", "e", "r", " ", "\"", "/", "x", "\"", " ", "[", "g", "e", "t", "]">>>>,
                <<<<"/", "/", " ", "@", "R", "o", "u", "t", "e", "r", " ", "/", "x", " ", "g", "e", "t">>>>,
                <<<<"/", "/", " ", "M", " ", "g", "o", "d", "o", "c">>, routerComment(<<"/", "x">>, <<"g", "e", "t">>)>>,
                <<routerComment(<<"/", "x">>, <<"f", "o", "o">>), routerComment(<<"/", "y">>, <<"p", "u", "t">>)>> }}

\* The type declarations of the file.
ExtractTypes ==
    { <<>>,
      <<TypeSpec(UHandlerType, "struct", FALSE)>>,
      <<TypeSpec(HandlerImplType, "struct", FALSE)>>,
      <<TypeSpec(HandlerInterfaceName, "interface", TRUE),
        TypeSpec(HandlerImplType, "struct", FALSE)>> }

methodName == <<"M">>
ExtractNames == {methodName, <<"P", "r", "o", "v", "i", "d", "e", "P">>}

\* The files ScanFile is run on: the type declarations, then one function.
ExtractFiles ==
    {[FilePath |-> <<"h", ".", "g", "o">>, Package |-> <<"u">>, syntaxOK |-> ok,
      decls |-> types \o <<FuncDecl(name, recv, params, results, doc.Doc)>>,
      annotated |-> doc.annotated, path |-> doc.path, method |-> doc.method] :
        ok \in BOOLEAN, types \in ExtractTypes, name \in ExtractNames, recv \in ExtractReceivers,
        params \in ExtractParams, results \in ExtractResults,
        doc \in AnnotatedDocs \cup OtherDocs}

InitExtract ==
    /\ xFile \in ExtractFiles
    /\ xTodo = <<>>
    /\ xResult = <<>>
    /\ xPc = "parse"
    /\ IdleFilter /\ IdleMatch /\ IdleScan /\ IdleValidate /\ IdleRoutes /\ IdleDeps /\ IdleConsume /\ IdleService /\ IdleIgnoreFile /\ IdleScanAll

otherThanExtract == <<filterVars, matchVars, scanVars, validateVars, routeVars, depVars, consumeVars, serviceVars, ignoreFileVars, scanAllVars>>

\* parser.ParseFile succeeds: result is allocated, ast.Inspect starts.
ParseFile ==
    /\ xPc = "parse" /\ xFile.syntaxOK
    /\ xTodo' = xFile.decls
    /\ xResult' = emptyFileResult
    /\ xPc' = "inspect"
    /\ UNCHANGED <<xFile, otherThanExtract>>

\* parser.ParseFile fails: ScanFile returns (nil, err).
ParseFileFails ==
    /\ xPc = "parse" /\ ~xFile.syntaxOK
    /\ xPc' = "failed"
    /\ UNCHANGED <<xFile, xTodo, xResult, otherThanExtract>>

\* The ast.Inspect callback on the next declaration.
Inspect ==
    /\ xPc = "inspect" /\ xTodo # <<>>
    /\ xResult' = inspectNode(Head(xTodo), xFile.Package, xFile.FilePath, xResult)
    /\ xTodo' = Tail(xTodo)
    /\ UNCHANGED <<xFile, xPc, otherThanExtract>>

\* ast.Inspect is through: associateInterfacesWithImplementations, return.
Associate ==
    /\ xPc = "inspect" /\ xTodo = <<>>
    /\ xResult' = associateInterfacesWithImplementations(xResult)
    /\ xPc' = "done"
    /\ UNCHANGED <<xFile, xTodo, otherThanExtract>>

NextExtract == ParseFile \/ ParseFileFails \/ Inspect \/ Associate

SpecExtract == InitExtract /\ [][NextExtract]_vars

(***************************************************************************)
(* Parallel aggregator: Scanner.scanFilesParallel                          *)
(***************************************************************************)

maxGoroutines == 10

\* The model runs the pool with at most PoolBound slots, so that a candidate
\* list of MaxFiles files can outnumber the slots.
PoolBound == 2
MaxFiles == 3

Min(a, b) == IF a < b THEN a ELSE b

\* cap(sem)
semCap == Min(maxGoroutines, PoolBound)

\* Candidate lists: FindCandidateFiles returns distinct files in walk order.
CandidateLists ==
    {SubSeq(SourceFiles, 1, 0)} \cup
    UNION {{[i \in 1..n |-> SourceFiles[ix[i]]] :
               ix \in {f \in [1..n -> 1..Len(SourceFiles)] :
                          \A i \in 1..(n - 1) : f[i] < f[i + 1]}} :
           n \in 1..Min(MaxFiles, Len(SourceFiles))}

Workers == 1..Len(files)

InitScan ==
    /\ files \in CandidateLists
    /\ mainPc = "spawn"
    /\ nextFile = 1
    /\ pc = [w \in Workers |-> "idle"]
    /\ wg = 0
    /\ sem = 0
    /\ mu = 0
    /\ fileResult = [w \in Workers |-> [err |-> FALSE, res |-> emptyScanResult]]
    /\ result = emptyScanResult
    /\ fset = <<>>
    /\ IdleFilter /\ IdleMatch /\ IdleValidate /\ IdleRoutes /\ IdleExtract /\ IdleDeps /\ IdleConsume /\ IdleService /\ IdleIgnoreFile /\ IdleScanAll

otherThanScan == <<filterVars, matchVars, validateVars, routeVars, extractVars, depVars, consumeVars, serviceVars, ignoreFileVars, scanAllVars>>

\* for _, file := range files { wg.Add(1); go func(filePath string) {...}(file) }
Spawn ==
    /\ mainPc = "spawn" /\ nextFile <= Len(files)
    /\ wg' = wg + 1
    /\ pc' = [pc EXCEPT ![nextFile] = "acquire"]
    /\ nextFile' = nextFile + 1
    /\ UNCHANGED <<files, mainPc, sem, mu, fileResult, result, fset, otherThanScan>>

\* The range loop is over.
SpawnDone ==
    /\ mainPc = "spawn" /\ nextFile > Len(files)
    /\ mainPc' = "wait"
    /\ UNCHANGED <<files, nextFile, pc, wg, sem, mu, fileResult, result, fset, otherThanScan>>

\* A wait that returns while workers are still running.
waitReturnsEarly(counter) == TRUE

\* wg.Wait() returns only when the counter is zero.
waitReturns(counter) == counter = 0

\* wg.Wait(); return result
Wait ==
    /\ mainPc = "wait" /\ waitReturns(wg)
    /\ mainPc' = "returned"
    /\ UNCHANGED <<files, nextFile, pc, wg, sem, mu, fileResult, result, fset, otherThanScan>>

\* A send on sem that never blocks.
AcquireUnbounded(w) ==
    /\ pc[w] = "acquire"
    /\ sem' = sem + 1
    /\ pc' = [pc EXCEPT ![w] = "scan"]
    /\ UNCHANGED <<files, mainPc, nextFile, wg, mu, fileResult, result, fset, otherThanScan>>

\* sem <- struct{}{} : blocks while the channel buffer is full.
Acquire(w) ==
    /\ pc[w] = "acquire" /\ sem < semCap
    /\ sem' = sem + 1
    /\ pc' = [pc EXCEPT ![w] = "scan"]
    /\ UNCHANGED <<files, mainPc, nextFile, wg, mu, fileResult, result, fset, otherThanScan>>

\* parser.ParseFile(s.fset, filePath, ...) registers the file in the file
\* set shared by every ScanFile call (the file set locks itself for that).
addFile(fileSet, filePath) == Append(fileSet, filePath)

\* A worker that takes the mutex before it parses and keeps it for the merge.
ScanHoldingMutex(w) ==
    /\ pc[w] = "scan" /\ mu = 0
    /\ mu' = w
    /\ fileResult' = [fileResult EXCEPT ![w] = ScanFile(files[w])]
    /\ fset' = addFile(fset, files[w].FilePath)
    /\ pc' = [pc EXCEPT ![w] = "merge"]
    /\ UNCHANGED <<files, mainPc, nextFile, wg, sem, result, otherThanScan>>

\* fileResult, err := s.astScanner.ScanFile(filePath)
Scan(w) ==
    /\ pc[w] = "scan"
    /\ fileResult' = [fileResult EXCEPT ![w] = ScanFile(files[w])]
    /\ fset' = addFile(fset, files[w].FilePath)
    /\ pc' = [pc EXCEPT ![w] = "lock"]
    /\ UNCHANGED <<files, mainPc, nextFile, wg, sem, mu, result, otherThanScan>>

\* mu.Lock(), on either branch of `if err != nil`.
Lock(w) ==
    /\ pc[w] = "lock" /\ mu = 0
    /\ mu' = w
    /\ pc' = [pc EXCEPT ![w] = "merge"]
    /\ UNCHANGED <<files, mainPc, nextFile, wg, sem, fileResult, result, fset, otherThanScan>>

\* The ScanError recorded for a file that failed to parse.
parseError(filePath) == [FilePath |-> filePath, Type |-> "parse_error"]

\* A merge that assigns the file's records instead of appending them.
mergeOverwrite(res, fr) ==
    [Handlers |-> fr.Handlers, Routes |-> fr.Routes,
     Providers |-> fr.Providers, Errors |-> res.Errors \o fr.Errors]

\* result.X = append(result.X, fileResult.X...) for the four collections.
mergeFileResult(res, fr) ==
    [Handlers |-> res.Handlers \o fr.Handlers, Routes |-> res.Routes \o fr.Routes,
     Providers |-> res.Providers \o fr.Providers, Errors |-> res.Errors \o fr.Errors]

\* The critical section: the error branch, or the merge; then mu.Unlock().
Merge(w) ==
    /\ pc[w] = "merge" /\ mu = w
    /\ result' = IF fileResult[w].err
                 THEN [result EXCEPT !.Errors = Append(@, parseError(files[w].FilePath))]
                 ELSE mergeFileResult(result, fileResult[w].res)
    /\ mu' = 0
    /\ pc' = [pc EXCEPT ![w] = "release"]
    /\ UNCHANGED <<files, mainPc, nextFile, wg, sem, fileResult, fset, otherThanScan>>

\* A deferred function that forgets to take the token back out of sem.
semReleaseLeak(tokens) == tokens

\* <-sem
semRelease(tokens) == tokens - 1

\* defer func() { <-sem }()
Release(w) ==
    /\ pc[w] = "release"
    /\ sem' = semRelease(sem)
    /\ pc' = [pc EXCEPT ![w] = "wgDone"]
    /\ UNCHANGED <<files, mainPc, nextFile, wg, mu, fileResult, result, fset, otherThanScan>>

\* defer wg.Done()
Done(w) ==
    /\ pc[w] = "wgDone"
    /\ wg' = wg - 1
    /\ pc' = [pc EXCEPT ![w] = "done"]
    /\ UNCHANGED <<files, mainPc, nextFile, sem, mu, fileResult, result, fset, otherThanScan>>

Worker(w) == Acquire(w) \/ Scan(w) \/ Lock(w) \/ Merge(w) \/ Release(w) \/ Done(w)

NextScan ==
    \/ Spawn \/ SpawnDone \/ Wait
    \/ \E w \in Workers : Acquire(w)
    \/ \E w \in Workers : Scan(w)
    \/ \E w \in Workers : Lock(w)
    \/ \E w \in Workers : Merge(w)
    \/ \E w \in Workers : Release(w)
    \/ \E w \in Workers : Done(w)

SpecScan == InitScan /\ [][NextScan]_vars

\* The Go scheduler runs every goroutine that can take a step.
FairSpecScan ==
    /\ SpecScan
    /\ WF_vars(Spawn) /\ WF_vars(SpawnDone) /\ WF_vars(Wait)
    /\ \A w \in 1..Len(SourceFiles) : WF_vars(w \in Workers /\ Worker(w))

(***************************************************************************)
(* Validator: scanner.Validator                                            *)
(* A ValidationError / ValidationWarning is modelled by its Type and its   *)
(* Message, the latter as the Sprintf format and its arguments; the Route  *)
(* and Handler pointer fields (addresses of range variables) are left out. *)
(***************************************************************************)

HandlerSuffix == <<"H", "a", "n", "d", "l", "e", "r">>

\* The RouteMapping records a ScanResult handed to the validator may hold.
RouteUniverse ==
    { [MethodName |-> <<"G">>, Path |-> <<"/", "x">>, HTTPMethod |-> GET,
       HandlerRef |-> <<"u">> \o HandlerSuffix \o <<".", "G">>, Package |-> <<"u">>],
      [MethodName |-> <<"L">>, Path |-> <<"/", "x">>, HTTPMethod |-> GET,
       HandlerRef |-> <<"u">> \o HandlerSuffix \o <<".", "L">>, Package |-> <<"u">>],
      [MethodName |-> <<"G">>, Path |-> <<"/", "x">>, HTTPMethod |-> POST,
       HandlerRef |-> <<"o">> \o HandlerSuffix \o <<".", "G">>, Package |-> <<"o">>],
      [MethodName |-> <<"G">>, Path |-> <<"/", "y">>, HTTPMethod |-> GET,
       HandlerRef |-> <<"u">> \o HandlerSuffix \o <<".", "G">>, Package |-> <<"u">>],
      [MethodName |-> <<"T">>, Path |-> <<"/", "t", " ", "t">>,
       HTTPMethod |-> <<"T", "R", "A", "C", "E">>,
       HandlerRef |-> <<"o">> \o HandlerSuffix \o <<".", "T">>, Package |-> <<"o">>],
      [MethodName |-> <<"T">>, Path |-> <<"/", "x">>, HTTPMethod |-> TRACE,
       HandlerRef |-> <<"o">> \o HandlerSuffix \o <<".", "T">>, Package |-> <<"o">>],
      [MethodName |-> <<"N">>, Path |-> <<"x", "/", ":", "a", " ", "b">>, HTTPMethod |-> GET,
       HandlerRef |-> <<"u">> \o HandlerSuffix \o <<".", "N">>, Package |-> <<"u">>],
      [MethodName |-> <<"W">>, Path |-> <<"/", ":", "a", " ", "b">>, HTTPMethod |-> GET,
       HandlerRef |-> <<"u">> \o HandlerSuffix \o <<".", "W">>, Package |-> <<"u">>] }

\* The HandlerFunction records it may hold; the third is the interface-based
\* twin of the first (same package and function, other HandlerName).
HandlerUniverse ==
    { [FunctionName |-> <<"G">>, Package |-> <<"u">>, HandlerName |-> <<"H">>,
       FilePath |-> <<"a", ".", "g", "o">>],
      [FunctionName |-> <<"L">>, Package |-> <<"u">>, HandlerName |-> HandlerSuffix,
       FilePath |-> <<"b", ".", "g", "o">>],
      [FunctionName |-> <<"G">>, Package |-> <<"u">>, HandlerName |-> HandlerSuffix,
       FilePath |-> <<"a", ".", "g", "o">>],
      [FunctionName |-> <<"D">>, Package |-> <<"o">>, HandlerName |-> HandlerSuffix,
       FilePath |-> <<"c", ".", "g", "o">>] }

MaxRoutes == 2
MaxHandlers == 2

SeqsUpTo(S, n) == UNION {[1..k -> S] : k \in 0..n}

\* The orders in which a range over a Go map may visit the keys.
KeyOrders(keys) ==
    {order \in [1..Cardinality(keys) -> keys] :
        \A i, j \in 1..Cardinality(keys) : i # j => order[i] # order[j]}

RECURSIVE Flatten(_)
Flatten(seqs) == IF seqs = <<>> THEN <<>> ELSE Head(seqs) \o Flatten(Tail(seqs))

\* fmt.Sprintf("%s %s", route.HTTPMethod, route.Path)
routeKey(route) == route.HTTPMethod \o <<" ">> \o route.Path

\* validateRoutes' routeMap: routeMap[key] = append(routeMap[key], route).
routesByKey(routes) ==
    [k \in {routeKey(routes[i]) : i \in DOMAIN routes} |->
        SelectSeq(routes, LAMBDA r : routeKey(r) = k)]

\* One duplicate_route error for the whole group instead of one per member.
duplicateErrorsOnePerGroup(key, duplicates) ==
    IF Len(duplicates) > 1
    THEN << [Type |-> "duplicate_route",
             Message |-> [format |-> "Duplicate route found: %s", args |-> <<key>>]] >>
    ELSE <<>>

\* The errors one iteration of `for key, duplicates := range routeMap` appends.
duplicateErrors(key, duplicates) ==
    IF Len(duplicates) > 1
    THEN [i \in 1..Len(duplicates) |->
             [Type |-> "duplicate_route",
              Message |-> [format |-> "Duplicate route found: %s", args |-> <<key>>]]]
    ELSE <<>>

validMethods ==
    { GET, POST, <<"P", "U", "T">>, <<"D", "E", "L", "E", "T", "E">>,
      <<"P", "A", "T", "C", "H">>, <<"H", "E", "A", "D">>,
      <<"O", "P", "T", "I", "O", "N", "S">> }

\* validateRoutePattern: <<>> for nil, else the error's format and arguments.
validateRoutePattern(route) ==
    LET path == route.Path
        segments == Split(path, slash)
        static == {i \in DOMAIN segments :
                      /\ segments[i] # <<>>
                      /\ ~HasPrefix(segments[i], <<":">>)
                      /\ ~HasPrefix(segments[i], star)}
    IN IF ~HasPrefix(path, slash)
       THEN [format |-> "route path must start with '/': %s", args |-> <<path>>]
       ELSE IF \E i \in static : \E j \in DOMAIN segments[i] :
                   segments[i][j] \in {" ", "\t", "\n", "\r"}
       THEN [format |-> "route path contains whitespace: %s", args |-> <<path>>]
       ELSE IF route.HTTPMethod \notin validMethods
       THEN [format |-> "invalid HTTP method: %s", args |-> <<route.HTTPMethod>>]
       ELSE <<>>

patternErrors(routes) ==
    LET bad == SelectSeq(routes, LAMBDA r : validateRoutePattern(r) # <<>>)
    IN [i \in 1..Len(bad) |->
           [Type |-> "invalid_route_pattern", Message |-> validateRoutePattern(bad[i])]]

\* strings.ToLower
ToLower(s) == [i \in 1..Len(s) |-> ToLowerChar(s[i])]

\* The warnings validateHandlers appends for one handler.
handlerWarnings(handler) ==
    (IF ~HasSuffix(handler.HandlerName, HandlerSuffix)
     THEN << [Type |-> "naming_convention",
              Message |-> [format |-> "Handler struct %s should end with 'Handler'",
                           args |-> <<handler.HandlerName>>]] >>
     ELSE <<>>)
    \o
    (IF Contains(ToLower(handler.FunctionName), <<"t", "e", "s", "t">>)
     THEN << [Type |-> "test_function",
              Message |-> [format |-> "Function %s appears to be a test function but was detected as a handler",
                           args |-> <<handler.FunctionName>>]] >>
     ELSE <<>>)

\* fmt.Sprintf("%s.%s", handler.Package, handler.FunctionName)
handlerKey(handler) == handler.Package \o dot \o handler.FunctionName

\* A route keyed by its HandlerRef instead of package.MethodName.
routeMatchKeyByRef(route) == route.HandlerRef

\* fmt.Sprintf("%s.%s", route.Package, route.MethodName)
routeMatchKey(route) == route.Package \o dot \o route.MethodName

\* The index of the last record of a slice whose key is k: the one a Go map
\* filled by `m[key] = record` ends up holding.
LastIndex(keys, k) ==
    CHOOSE i \in DOMAIN keys : keys[i] = k /\ \A j \in DOMAIN keys : keys[j] = k => j <= i

\* validateHandlerRouteMatching's handlerMap: handlerMap[key] = handler.
handlerMapOf(handlers) ==
    LET keys == [i \in DOMAIN handlers |-> handlerKey(handlers[i])]
    IN [k \in Range(keys) |-> handlers[LastIndex(keys, k)]]

\* validateHandlerRouteMatching's routeMap: routeMap[key] = route.
routeMapOf(routes) ==
    LET keys == [i \in DOMAIN routes |-> routeMatchKey(routes[i])]
    IN [k \in Range(keys) |-> routes[LastIndex(keys, k)]]

InitValidate ==
    /\ vInput \in [Handlers : SeqsUpTo(HandlerUniverse, MaxHandlers),
                   Routes : SeqsUpTo(RouteUniverse, MaxRoutes)]
    /\ vResult = [Errors |-> <<>>, Warnings |-> <<>>]
    /\ vPc = "routes"
    /\ IdleFilter /\ IdleMatch /\ IdleScan /\ IdleRoutes /\ IdleExtract /\ IdleDeps /\ IdleConsume /\ IdleService /\ IdleIgnoreFile /\ IdleScanAll

otherThanValidate == <<filterVars, matchVars, scanVars, routeVars, extractVars, depVars, consumeVars, serviceVars, ignoreFileVars, scanAllVars>>

\* v.validateRoutes(result.Routes, validationResult)
ValidateRoutes ==
    /\ vPc = "routes"
    /\ LET routeMap == routesByKey(vInput.Routes)
       IN \E order \in KeyOrders(DOMAIN routeMap) :
              vResult' = [vResult EXCEPT !.Errors =
                  @ \o Flatten([i \in 1..Len(order) |->
                                   duplicateErrors(order[i], routeMap[order[i]])])
                    \o patternErrors(vInput.Routes)]
    /\ vPc' = "handlers"
    /\ UNCHANGED <<vInput, otherThanValidate>>

\* v.validateHandlers(result.Handlers, validationResult)
ValidateHandlers ==
    /\ vPc = "handlers"
    /\ vResult' = [vResult EXCEPT !.Warnings =
           @ \o Flatten([i \in 1..Len(vInput.Handlers) |-> handlerWarnings(vInput.Handlers[i])])]
    /\ vPc' = "matching"
    /\ UNCHANGED <<vInput, otherThanValidate>>

\* v.validateHandlerRouteMatching(result.Handlers, result.Routes, validationResult)
ValidateHandlerRouteMatching ==
    /\ vPc = "matching"
    /\ LET handlerMap == handlerMapOf(vInput.Handlers)
           routeMap == routeMapOf(vInput.Routes)
       IN \E hOrder \in KeyOrders(DOMAIN handlerMap), rOrder \in KeyOrders(DOMAIN routeMap) :
              LET loneHandlers == SelectSeq(hOrder, LAMBDA k : k \notin DOMAIN routeMap)
                  loneRoutes == SelectSeq(rOrder, LAMBDA k : k \notin DOMAIN handlerMap)
              IN vResult' =
                   [Errors |-> vResult.Errors \o
                       [i \in 1..Len(loneRoutes) |->
                           [Type |-> "route_without_handler",
                            Message |->
                              [format |-> "@Router annotation found for %s.%s but no corresponding handler function",
                               args |-> <<routeMap[loneRoutes[i]].Package,
                                          routeMap[loneRoutes[i]].MethodName>>]]],
                    Warnings |-> vResult.Warnings \o
                       [i \in 1..Len(loneHandlers) |->
                           [Type |-> "handler_without_route",
                            Message |->
                              [format |-> "Handler function %s.%s found but no @Router annotation",
                               args |-> <<handlerMap[loneHandlers[i]].Package,
                                          handlerMap[loneHandlers[i]].FunctionName>>]]]]
    /\ vPc' = "done"
    /\ UNCHANGED <<vInput, otherThanValidate>>

NextValidate == ValidateRoutes \/ ValidateHandlers \/ ValidateHandlerRouteMatching

SpecValidate == InitValidate /\ [][NextValidate]_vars

(***************************************************************************)
(* Route generator: generator.RouteGenerator                               *)
(* GenerateRoutes never reads its handlers argument (extractHandlerInfo    *)
(* and generateImports use the routes only), so the model leaves it out.   *)
(* The generated file is modelled by the data the template is executed     *)
(* with: the routes in registration order, the imports, the handler list.  *)
(***************************************************************************)

\* Where the handler file of a package lies in the scanned project, relative
\* to the project root: package u in internal/u, package o in pkg/o.
handlerFileOf(pkg) ==
    (IF pkg = <<"u">> THEN <<"i", "n", "t", "e", "r", "n", "a", "l", "/">>
                      ELSE <<"p", "k", "g", "/">>)
    \o pkg \o <<"/", "h">> \o dotGo

\* The RouteMapping the extractor makes of a handler `fn` of package pkg
\* annotated `@Router path [method]`.
RouteOf(method, path, pkg, fn) ==
    LET decl == FuncDecl(fn, HandlerSuffix, <<fiberCtx>>, <<errorType>>,
                         <<routerComment(path, method)>>)
    IN extractRoute(decl, extractHandler(decl, pkg, handlerFileOf(pkg))[1])[1]

\* The routes a scan may hand to GenerateRoutes.
GenRouteUniverse ==
    { RouteOf(GET, <<"/", "u", "s", "e", "r", "s", "/", "s", "e", "a", "r", "c", "h">>,
              <<"u">>, <<"S">>),
      RouteOf(GET, <<"/", "u", "s", "e", "r", "s", "/", ":", "i", "d">>, <<"u">>, <<"G">>),
      RouteOf(GET, <<"/", "u", "s", "e", "r", "s", "/", "{", "i", "d", "}">>, <<"u">>, <<"L">>),
      RouteOf(GET, <<"/", "u", "s", "e", "r", "s", "/", "*">>, <<"u">>, <<"A">>),
      RouteOf(POST, <<"/", "u", "s", "e", "r", "s">>, <<"o">>, <<"P">>),
      RouteOf(DELETE, <<"/", "u", "s", "e", "r", "s", "/", ":", "i", "d">>, <<"o">>, <<"Q">>),
      RouteOf(TRACE, <<"/", "u", "s", "e", "r", "s">>, <<"o">>, <<"T">>) }

MaxGenRoutes == 3

\* config.Project.Module
ProjectModule == <<"m">>

\* convertPathForFiber: {param} becomes :param.
convertPathForFiber(path) == ReplaceAll(ReplaceAll(path, <<"{">>, <<":">>), <<"}">>, <<>>)

\* A grouping that keeps, per package, only the first route of every
\* (HTTPMethod, Path).
organizeRoutesCollapsed(routes) ==
    LET converted == [i \in 1..Len(routes) |->
                         [routes[i] EXCEPT !.Path = convertPathForFiber(@)]]
        firstOfKey(i) == \A j \in 1..(i - 1) :
                             \/ converted[j].HTTPMethod # converted[i].HTTPMethod
                             \/ converted[j].Path # converted[i].Path
        kept == [i \in 1..Len(routes) |-> IF firstOfKey(i) THEN <<converted[i]>> ELSE <<>>]
    IN [pkg \in {converted[i].Package : i \in DOMAIN converted} |->
           SelectSeq(Flatten(kept), LAMBDA r : r.Package = pkg)]

\* organizeRoutesByPackage: per package, its routes in input order with the
\* path converted.
organizeRoutesByPackage(routes) ==
    LET converted == [i \in 1..Len(routes) |->
                         [routes[i] EXCEPT !.Path = convertPathForFiber(@)]]
    IN [pkg \in {converted[i].Package : i \in DOMAIN converted} |->
           SelectSeq(converted, LAMBDA r : r.Package = pkg)]

RECURSIVE SumSeq(_)
SumSeq(ns) == IF ns = <<>> THEN 0 ELSE Head(ns) + SumSeq(Tail(ns))

calculateSpecificityScore(path) ==
    LET segments == Split(Trim(path, {"/"}), slash)
    IN Len(segments) * 1000
       + SumSeq([i \in 1..Len(segments) |->
                    IF HasPrefix(segments[i], <<":">>) THEN -100 ELSE 100])

\* A less function that compares the paths only.
routeLessByPath(a, b) == StrLess(a.Path, b.Path)

\* The less function handed to sort.Slice in generateRouteFileContent.
routeLess(a, b) ==
    LET scoreA == calculateSpecificityScore(a.Path)
        scoreB == calculateSpecificityScore(b.Path)
    IN IF scoreA # scoreB THEN scoreA > scoreB
       ELSE IF a.HTTPMethod # b.HTTPMethod THEN StrLess(a.HTTPMethod, b.HTTPMethod)
       ELSE StrLess(a.Path, b.Path)

\* sort.Slice on a slice of at most 12 elements is an insertion sort:
\* each element moves left past the elements it is less than.
RECURSIVE insertRoute(_, _)
insertRoute(sorted, x) ==
    IF sorted # <<>> /\ routeLess(x, sorted[Len(sorted)])
    THEN Append(insertRoute(SubSeq(sorted, 1, Len(sorted) - 1), x), sorted[Len(sorted)])
    ELSE Append(sorted, x)

RECURSIVE sortRoutes(_)
sortRoutes(routes) ==
    IF routes = <<>> THEN <<>>
    ELSE insertRoute(sortRoutes(SubSeq(routes, 1, Len(routes) - 1)), routes[Len(routes)])

\* generateRouteFileContent: the packages in sorted order, their routes
\* appended, the whole sorted by routeLess.
sortedRegistrations(byPackage) ==
    LET packageNames == SortStrings(DOMAIN byPackage)
    IN sortRoutes(Flatten([i \in 1..Len(packageNames) |-> byPackage[packageNames[i]]]))

\* getRouterMethod: the method of the Fiber router a registration calls.
getRouterMethod(method) ==
    LET upper == ToUpper(method)
    IN CASE upper = GET -> <<"G", "e", "t">>
         [] upper = POST -> <<"P", "o", "s", "t">>
         [] upper = <<"P", "U", "T">> -> <<"P", "u", "t">>
         [] upper = DELETE -> <<"D", "e", "l", "e", "t", "e">>
         [] upper = <<"P", "A", "T", "C", "H">> -> <<"P", "a", "t", "c", "h">>
         [] upper = <<"H", "E", "A", "D">> -> <<"H", "e", "a", "d">>
         [] upper = <<"O", "P", "T", "I", "O", "N", "S">>
                -> <<"O", "p", "t", "i", "o", "n", "s">>
         [] OTHER -> <<"A", "l", "l">>

\* getHandlerRef: "userHandler.GetUsers" becomes "ar.userHandler.GetUsers".
getHandlerRef(pkg, handlerRef) ==
    LET parts == Split(handlerRef, dot)
    IN IF Len(parts) = 2 THEN <<"a", "r">> \o dot \o parts[1] \o dot \o parts[2]
       ELSE handlerRef

\* The registration lines of the template, one per route in order:
\* app.<router method>("<path>", <handler reference>).
registrationLines(routes) ==
    [i \in DOMAIN routes |->
        [RouterMethod |-> getRouterMethod(routes[i].HTTPMethod),
         Path |-> routes[i].Path,
         Handler |-> getHandlerRef(routes[i].Package, routes[i].HandlerRef)]]

getHandlerTypeName(pkg) == <<"*">> \o pkg \o dot \o HandlerSuffix

\* extractHandlerInfo: one HandlerInfo per handler name (the part of
\* HandlerRef before the dot), taken from the first route that names it,
\* sorted by FieldName.
extractHandlerInfo(routes) ==
    LET usable == SelectSeq(routes, LAMBDA r : Len(Split(r.HandlerRef, dot)) = 2)
        nameOf(r) == Split(r.HandlerRef, dot)[1]
        names == {nameOf(usable[i]) : i \in DOMAIN usable}
        first(name) == usable[CHOOSE i \in DOMAIN usable :
                                 /\ nameOf(usable[i]) = name
                                 /\ \A j \in DOMAIN usable : nameOf(usable[j]) = name => i <= j]
        ordered == SortStrings(names)
    IN [i \in 1..Len(ordered) |->
           [FieldName |-> ordered[i], ParamName |-> ordered[i],
            TypeName |-> getHandlerTypeName(first(ordered[i]).Package),
            Package |-> first(ordered[i]).Package]]

deriveHandlerImportPath(pkg) ==
    IF ProjectModule # <<>>
    THEN ProjectModule \o <<"/", "i", "n", "t", "e", "r", "n", "a", "l", "/">> \o pkg
    ELSE <<"i", "n", "t", "e", "r", "n", "a", "l", "/">> \o pkg

fiberImport ==
    <<"\"", "g", "i", "t", "h", "u", "b", ".", "c", "o", "m", "/", "g", "o", "f", "i", "b",
      "e", "r", "/", "f", "i", "b", "e", "r", "/", "v", "2", "\"">>

\* generateImports: the fiber import, then the quoted import paths of the
\* handlers' packages, de-duplicated and sorted.
generateImports(info) ==
    LET packageSet == {<<"\"">> \o deriveHandlerImportPath(info[i].Package) \o <<"\"">> :
                          i \in {j \in DOMAIN info : deriveHandlerImportPath(info[j].Package) # <<>>}}
    IN <<fiberImport>> \o SortStrings(packageSet)

InitRoutes ==
    /\ gEnabled \in BOOLEAN
    /\ gRoutes \in SeqsUpTo(GenRouteUniverse, MaxGenRoutes)
    /\ routesByPackage = <<>>
    /\ handlerInfo = <<>>
    /\ imports = <<>>
    /\ gOutput = <<>>
    /\ gPc = "start"
    /\ IdleFilter /\ IdleMatch /\ IdleScan /\ IdleValidate /\ IdleExtract /\ IdleDeps /\ IdleConsume /\ IdleService /\ IdleIgnoreFile /\ IdleScanAll

otherThanRoutes == <<filterVars, matchVars, scanVars, validateVars, extractVars, depVars, consumeVars, serviceVars, ignoreFileVars, scanAllVars>>

\* if !g.config.Generation.Routes.Enabled { return nil }
GenerateDisabled ==
    /\ gPc = "start" /\ ~gEnabled
    /\ gPc' = "done"
    /\ UNCHANGED <<gEnabled, gRoutes, routesByPackage, handlerInfo, imports, gOutput>>
    /\ UNCHANGED otherThanRoutes

\* A loop that assigns routes[i].Path: the caller's slice is rewritten.
routesRewrittenInPlace(routes) ==
    [i \in 1..Len(routes) |-> [routes[i] EXCEPT !.Path = convertPathForFiber(@)]]

\* The caller's slice after organizeRoutesByPackage: `route` in
\* `for _, route := range routes` is a copy of routes[i], so the assignment
\* to route.Path leaves the slice as it was.
routesAfterOrganize(routes) == routes

\* routesByPackage := g.organizeRoutesByPackage(routes)
OrganizeRoutes ==
    /\ gPc = "start" /\ gEnabled
    /\ routesByPackage' = organizeRoutesByPackage(gRoutes)
    /\ gRoutes' = routesAfterOrganize(gRoutes)
    /\ gPc' = "organized"
    /\ UNCHANGED <<gEnabled, handlerInfo, imports, gOutput, otherThanRoutes>>

\* handlerInfo := g.extractHandlerInfo(handlers, routes)
ExtractHandlerInfo ==
    /\ gPc = "organized"
    /\ handlerInfo' = extractHandlerInfo(gRoutes)
    /\ gPc' = "extracted"
    /\ UNCHANGED <<gEnabled, gRoutes, routesByPackage, imports, gOutput, otherThanRoutes>>

\* imports := g.generateImports(handlers, routes, handlerInfo)
GenerateImports ==
    /\ gPc = "extracted"
    /\ imports' = generateImports(handlerInfo)
    /\ gPc' = "imported"
    /\ UNCHANGED <<gEnabled, gRoutes, routesByPackage, handlerInfo, gOutput, otherThanRoutes>>

\* content := g.generateRouteFileContent(...); writeGeneratedFile(outputPath, content)
GenerateRouteFileContent ==
    /\ gPc = "imported"
    /\ gOutput' = [Routes |-> sortedRegistrations(routesByPackage),
                   Lines |-> registrationLines(sortedRegistrations(routesByPackage)),
                   Imports |-> imports,
                   Handlers |-> handlerInfo]
    /\ gPc' = "done"
    /\ UNCHANGED <<gEnabled, gRoutes, routesByPackage, handlerInfo, imports, otherThanRoutes>>

NextRoutes ==
    \/ GenerateDisabled \/ OrganizeRoutes \/ ExtractHandlerInfo
    \/ GenerateImports \/ GenerateRouteFileContent

SpecRoutes == InitRoutes /\ [][NextRoutes]_vars

(***************************************************************************)
(* Dependency generator: generator.DependencyGenerator                     *)
(* The generated file is modelled by the data the template is executed     *)
(* with (the providers by package, the imports) and by the provider        *)
(* references in the order the template lists them.                        *)
(***************************************************************************)

\* A ProviderFunction as the extractor records it.
Provider(pkg, fn, returnType, filePath) ==
    [FunctionName |-> fn, Package |-> pkg, ReturnType |-> returnType,
     Parameters |-> <<>>, FilePath |-> filePath]

\* The providers a scan may hand to GenerateDependencies: two packages named
\* u in different directories declare a ProvideA each.
ProviderUniverse ==
    { Provider(<<"u">>, <<"P", "r", "o", "v", "i", "d", "e", "A">>, <<"*", "A">>, <<"u", "/", "a", ".", "g", "o">>),
      Provider(<<"u">>, <<"P", "r", "o", "v", "i", "d", "e", "B">>, <<"*", "B">>, <<"u", "/", "b", ".", "g", "o">>),
      Provider(<<"u">>, <<"P", "r", "o", "v", "i", "d", "e", "A">>, <<"*", "V">>, <<"v", "/", "u", "/", "a", ".", "g", "o">>),
      Provider(<<"o">>, <<"P", "r", "o", "v", "i", "d", "e", "C">>, <<"*", "C">>, <<"o", "/", "c", ".", "g", "o">>),
      Provider(<<"a", "p", "i">>, <<"P", "r", "o", "v", "i", "d", "e", "D">>, <<"*", "D">>, <<"a", "p", "i", "/", "d", ".", "g", "o">>) }

MaxProviders == 3

\* config.Paths.OutputDir
OutputDir == <<"a", "p", "i">>

\* filepath.Base / filepath.Dir of a clean relative slash path.
Base(path) == Split(path, slash)[Len(Split(path, slash))]

Dir(path) == Parent(path)

\* getOutputPackageName
getOutputPackageName == Base(OutputDir)

\* The less function handed to sort.Slice in organizeProvidersByPackage.
providerLess(a, b) == StrLess(a.FunctionName, b.FunctionName)

\* sort.Slice on a slice of at most 12 elements is an insertion sort.
RECURSIVE insertProvider(_, _)
insertProvider(sorted, x) ==
    IF sorted # <<>> /\ providerLess(x, sorted[Len(sorted)])
    THEN Append(insertProvider(SubSeq(sorted, 1, Len(sorted) - 1), x), sorted[Len(sorted)])
    ELSE Append(sorted, x)

RECURSIVE sortProviders(_)
sortProviders(providers) ==
    IF providers = <<>> THEN <<>>
    ELSE insertProvider(sortProviders(SubSeq(providers, 1, Len(providers) - 1)),
                        providers[Len(providers)])

\* A grouping that leaves every package's providers in input order.
organizeProvidersUnsorted(providers) ==
    [pkg \in {providers[i].Package : i \in DOMAIN providers} |->
        SelectSeq(providers, LAMBDA p : p.Package = pkg)]

\* organizeProvidersByPackage: per package, its providers sorted by
\* FunctionName.
organizeProvidersByPackage(providers) ==
    [pkg \in {providers[i].Package : i \in DOMAIN providers} |->
        sortProviders(SelectSeq(providers, LAMBDA p : p.Package = pkg))]

\* deriveImportPath for a file path relative to the working directory: the
\* module, then the file's directory.
deriveImportPath(filePath) ==
    LET relDir == IF Dir(filePath) = dot THEN <<>> ELSE Dir(filePath)
    IN IF relDir = <<>> THEN ProjectModule ELSE ProjectModule \o slash \o relDir

wireImport == <<"\"", "g", "i", "t", "h", "u", "b", ".", "c", "o", "m", "/", "g", "o", "o", "g", "l", "e", "/", "w", "i", "r", "e", "\"">>

\* DependencyGenerator.generateImports: the wire import, then the quoted
\* import paths of the providers' packages other than the output package,
\* de-duplicated and sorted.
generateDependencyImports(providers) ==
    LET needed == {i \in DOMAIN providers :
                      /\ providers[i].Package # <<>>
                      /\ providers[i].Package # getOutputPackageName
                      /\ deriveImportPath(providers[i].FilePath) # <<>>}
        packageSet == {<<"\"">> \o deriveImportPath(providers[i].FilePath) \o <<"\"">> :
                          i \in needed}
    IN <<wireImport>> \o SortStrings(packageSet)

getProviderRef(pkg, functionName) ==
    IF pkg = getOutputPackageName THEN functionName ELSE pkg \o dot \o functionName

\* The provider references of the generated provider set, in the order the
\* template lists them: the package groups in sorted package-name order,
\* each group in the order of its slice.
emittedProviderRefs(byPackage) ==
    LET packageNames == SortStrings(DOMAIN byPackage)
    IN [i \in 1..Len(packageNames) |->
           [Package |-> packageNames[i],
            Refs |-> [k \in 1..Len(byPackage[packageNames[i]]) |->
                         getProviderRef(packageNames[i],
                                        byPackage[packageNames[i]][k].FunctionName)]]]

InitDeps ==
    /\ dEnabled \in BOOLEAN
    /\ dProviders \in SeqsUpTo(ProviderUniverse, MaxProviders)
    /\ providersByPackage = <<>>
    /\ dImports = <<>>
    /\ dOutput = <<>>
    /\ dPc = "start"
    /\ IdleFilter /\ IdleMatch /\ IdleScan /\ IdleValidate /\ IdleRoutes /\ IdleExtract /\ IdleConsume /\ IdleService /\ IdleIgnoreFile /\ IdleScanAll

otherThanDeps == <<filterVars, matchVars, scanVars, validateVars, routeVars, extractVars, consumeVars, serviceVars, ignoreFileVars, scanAllVars>>

\* if !g.config.Generation.Dependencies.Enabled { return nil }
DependenciesDisabled ==
    /\ dPc = "start" /\ ~dEnabled
    /\ dPc' = "done"
    /\ UNCHANGED <<dEnabled, dProviders, providersByPackage, dImports, dOutput, otherThanDeps>>

\* providersByPackage := g.organizeProvidersByPackage(providers)
OrganizeProviders ==
    /\ dPc = "start" /\ dEnabled
    /\ providersByPackage' = organizeProvidersByPackage(dProviders)
    /\ dPc' = "organized"
    /\ UNCHANGED <<dEnabled, dProviders, dImports, dOutput, otherThanDeps>>

\* imports := g.generateImports(providers)
GenerateDependencyImports ==
    /\ dPc = "organized"
    /\ dImports' = generateDependencyImports(dProviders)
    /\ dPc' = "imported"
    /\ UNCHANGED <<dEnabled, dProviders, providersByPackage, dOutput, otherThanDeps>>

\* content, err := g.generateDependencyFileContent(providersByPackage, imports)
GenerateDependencyFileContent ==
    /\ dPc = "imported"
    /\ dOutput' = [ProvidersByPackage |-> providersByPackage,
                   Imports |-> dImports,
                   Groups |-> emittedProviderRefs(providersByPackage)]
    /\ dPc' = "done"
    /\ UNCHANGED <<dEnabled, dProviders, providersByPackage, dImports, otherThanDeps>>

NextDeps ==
    \/ DependenciesDisabled \/ OrganizeProviders
    \/ GenerateDependencyImports \/ GenerateDependencyFileContent

SpecDeps == InitDeps /\ [][NextDeps]_vars

(***************************************************************************)
(* The consumers of one completed ScanResult: the validator, the route     *)
(* generator and the dependency generator, each run on the collections of  *)
(* the same result. cScan keeps the result as the aggregator returned it.  *)
(***************************************************************************)

ConsumedHandlers ==
    { [FunctionName |-> <<"D">>, Package |-> <<"o">>, HandlerName |-> <<"H">>,
       FilePath |-> <<"c", ".", "g", "o">>] }

ConsumedRoutes ==
    { RouteOf(GET, <<"/", "u", "s", "e", "r", "s", "/", "{", "i", "d", "}">>, <<"u">>, <<"L">>),
      RouteOf(GET, <<"/", "u", "s", "e", "r", "s", "/", ":", "i", "d">>, <<"u">>, <<"G">>) }

ConsumedProviders ==
    { Provider(<<"u">>, <<"P", "r", "o", "v", "i", "d", "e", "B">>, <<"*", "B">>, <<"u", "/", "b", ".", "g", "o">>),
      Provider(<<"u">>, <<"P", "r", "o", "v", "i", "d", "e", "A">>, <<"*", "A">>, <<"u", "/", "a", ".", "g", "o">>) }

MaxConsumed == 2

InitConsume ==
    /\ cScan \in [Handlers : SeqsUpTo(ConsumedHandlers, MaxConsumed),
                  Routes : SeqsUpTo(ConsumedRoutes, MaxConsumed),
                  Providers : SeqsUpTo(ConsumedProviders, MaxConsumed)]
    /\ vInput = [Handlers |-> cScan.Handlers, Routes |-> cScan.Routes]
    /\ vResult = [Errors |-> <<>>, Warnings |-> <<>>]
    /\ vPc = "routes"
    /\ gEnabled \in BOOLEAN
    /\ gRoutes = cScan.Routes
    /\ routesByPackage = <<>> /\ handlerInfo = <<>> /\ imports = <<>> /\ gOutput = <<>>
    /\ gPc = "start"
    /\ dEnabled \in BOOLEAN
    /\ dProviders = cScan.Providers
    /\ providersByPackage = <<>> /\ dImports = <<>> /\ dOutput = <<>>
    /\ dPc = "start"
    /\ IdleFilter /\ IdleMatch /\ IdleScan /\ IdleExtract /\ IdleService /\ IdleIgnoreFile /\ IdleScanAll

\* The consumers run independently of each other.
NextConsume == NextValidate \/ NextRoutes \/ NextDeps

SpecConsume == InitConsume /\ [][NextConsume]_vars

(***************************************************************************)
(* The generation service's GenerateRoutes: scan, then                     *)
(* RouteGenerator.GenerateRoutes, then writeGeneratedFile.                 *)
(***************************************************************************)

MaxServiceRoutes == 2

\* What ScanRoutes may return: an error, or handlers and their routes (a
\* route comes from a handler, so there is no route without a handler).
ScanOutcomes ==
    {[err |-> TRUE, Handlers |-> <<>>, Routes |-> <<>>]} \cup
    {o \in [err : {FALSE},
            Handlers : SeqsUpTo(ConsumedHandlers, 1),
            Routes : SeqsUpTo(ConsumedRoutes, MaxServiceRoutes)] :
        o.Handlers = <<>> => o.Routes = <<>>}

InitService ==
    /\ sEnabled \in BOOLEAN
    /\ sScan \in ScanOutcomes
    /\ fsFails \in {"none", "mkdir", "write"}
    /\ fsFile \in {[state |-> "absent"], [state |-> "stale"]}
    /\ sReturn = "none"
    /\ sPc = "start"
    /\ IdleFilter /\ IdleMatch /\ IdleScan /\ IdleValidate /\ IdleRoutes /\ IdleExtract /\ IdleDeps /\ IdleConsume /\ IdleIgnoreFile /\ IdleScanAll

otherThanService ==
    <<filterVars, matchVars, scanVars, validateVars, extractVars, depVars, consumeVars, ignoreFileVars, scanAllVars>>

serviceConfig == <<sEnabled, sScan, fsFails>>

\* if !s.config.Generation.Routes.Enabled { return nil }
ServiceDisabled ==
    /\ sPc = "start" /\ ~sEnabled
    /\ sReturn' = "nil" /\ sPc' = "returned"
    /\ UNCHANGED <<serviceConfig, fsFile, routeVars, otherThanService>>

\* handlers, routes, err := s.scanner.ScanRoutes(...) fails.
ServiceScanFails ==
    /\ sPc = "start" /\ sEnabled /\ sScan.err
    /\ sReturn' = "error" /\ sPc' = "returned"
    /\ UNCHANGED <<serviceConfig, fsFile, routeVars, otherThanService>>

ServiceScan ==
    /\ sPc = "start" /\ sEnabled /\ ~sScan.err
    /\ sPc' = "scanned"
    /\ UNCHANGED <<serviceConfig, fsFile, sReturn, routeVars, otherThanService>>

\* if len(handlers) == 0 { ...; return nil }
ServiceNoHandlers ==
    /\ sPc = "scanned" /\ Len(sScan.Handlers) = 0
    /\ sReturn' = "nil" /\ sPc' = "returned"
    /\ UNCHANGED <<serviceConfig, fsFile, routeVars, otherThanService>>

\* if len(routes) == 0 { ...; return nil }
ServiceNoRoutes ==
    /\ sPc = "scanned" /\ Len(sScan.Handlers) # 0 /\ Len(sScan.Routes) = 0
    /\ sReturn' = "nil" /\ sPc' = "returned"
    /\ UNCHANGED <<serviceConfig, fsFile, routeVars, otherThanService>>

\* routeGen.GenerateRoutes(handlers, routes) is called.
ServiceCallGenerator ==
    /\ sPc = "scanned" /\ Len(sScan.Handlers) # 0 /\ Len(sScan.Routes) # 0
    /\ sPc' = "generating"
    /\ gEnabled' = sEnabled
    /\ gRoutes' = sScan.Routes
    /\ gPc' = "start"
    /\ UNCHANGED <<routesByPackage, handlerInfo, imports, gOutput>>
    /\ UNCHANGED <<serviceConfig, fsFile, sReturn, otherThanService>>

\* The steps of RouteGenerator.GenerateRoutes up to the file content.
ServiceGeneratorStep ==
    /\ sPc = "generating"
    /\ OrganizeRoutes \/ ExtractHandlerInfo \/ GenerateImports \/ GenerateRouteFileContent

\* writeGeneratedFile: os.MkdirAll or os.WriteFile fails, the error comes
\* back through RouteGenerator.GenerateRoutes and is wrapped.
ServiceWriteFails ==
    /\ sPc = "generating" /\ gPc = "done" /\ fsFails # "none"
    /\ sReturn' = "error" /\ sPc' = "returned"
    /\ UNCHANGED <<serviceConfig, fsFile, routeVars, otherThanService>>

\* writeGeneratedFile writes the content; GenerateRoutes returns nil.
ServiceWrite ==
    /\ sPc = "generating" /\ gPc = "done" /\ fsFails = "none"
    /\ fsFile' = [state |-> "written", content |-> gOutput]
    /\ sReturn' = "nil" /\ sPc' = "returned"
    /\ UNCHANGED <<serviceConfig, routeVars, otherThanService>>

NextService ==
    \/ ServiceDisabled \/ ServiceScanFails \/ ServiceScan
    \/ ServiceNoHandlers \/ ServiceNoRoutes \/ ServiceCallGenerator
    \/ ServiceGeneratorStep \/ ServiceWriteFails \/ ServiceWrite

SpecService == InitService /\ [][NextService]_vars

(***************************************************************************)
(* Materialising the default ignore file: handleInit with                  *)
(* FileFilter.CreateDefaultTaskwIgnore, and                                *)
(* InitGenerator.createOrAppendTaskwIgnore. File contents are strings; the *)
(* long pattern lists are cut down to their first lines. The model covers  *)
(* the runs in which the file-system calls succeed.                        *)
(***************************************************************************)

MaxInitRuns == 3

\* The first lines of the content CreateDefaultTaskwIgnore writes.
defaultTaskwIgnore ==
    <<"#", " ", "T", "a", "s", "k", "W", " ", "I", "g", "n", "o", "r", "e", " ", "P", "a",
      "t", "t", "e", "r", "n", "s", "\n", "v", "e", "n", "d", "o", "r", "/", "*", "*",
      "\n">>

\* The first lines of getDefaultTaskwIgnoreContent.
getDefaultTaskwIgnoreContent ==
    <<"#", " ", "T", "a", "s", "k", "w", " ", "I", "g", "n", "o", "r", "e", " ", "P", "a",
      "t", "t", "e", "r", "n", "s", "\n", "*", "*", "/", "*", "_", "t", "e", "s", "t",
      ".", "g", "o", "\n">>

\* The text createOrAppendTaskwIgnore looks for in an existing file.
taskwMarker == <<"#", " ", "T", "a", "s", "k", "w", " ", "I", "g", "n", "o", "r", "e", " ", "P", "a",
      "t", "t", "e", "r", "n", "s">>

appendSeparator ==
    <<"\n", "\n", "#", " ", "=", "=", "=", "=", "=", " ", "T", "a", "s", "k", "w", " ",
      "D", "e", "f", "a", "u", "l", "t", " ", "P", "a", "t", "t", "e", "r", "n", "s",
      " ", "=", "=", "=", "=", "=", "\n">>

\* readCurrentTaskwIgnore, else the default: what the scaffolding command
\* may find as .taskwignore in the directory it is run from.
TemplateContents ==
    { getDefaultTaskwIgnoreContent,
      defaultTaskwIgnore,
      <<"*", ".", "t", "m", "p", "\n">>,
      <<"#", " ", "m", "y", " ", "r", "u", "l", "e", "s", "\n", "#", " ", "T", "a", "s", "k",
      "w", " ", "I", "g", "n", "o", "r", "e", " ", "P", "a", "t", "t", "e", "r", "n",
      "s", "\n">> }

\* The target .taskwignore before the first run.
TargetFiles ==
    { <<>>,
      <<<<>>>>,
      <<<<"*", ".", "l", "o", "g", "\n">>>>,
      <<<<"#", " ", "T", "a", "s", "k", "w", " ", "I", "g", "n", "o", "r", "e", " ", "P", "a",
      "t", "t", "e", "r", "n", "s", "\n", "*", ".", "l", "o", "g", "\n">>>>,
      <<defaultTaskwIgnore>>,
      <<<<"*", ".", "l", "o", "g", "\n", "#", " ", "=", "=", "=", "=", "=", " ", "T", "a", "s",
      "k", "w", " ", "D", "e", "f", "a", "u", "l", "t", " ", "P", "a", "t", "t", "e",
      "r", "n", "s", " ", "=", "=", "=", "=", "=", "\n">>>> }

InitIgnoreFile ==
    /\ iOp \in {"init", "scaffold"}
    /\ iTemplate \in (IF iOp = "init" THEN {defaultTaskwIgnore} ELSE TemplateContents)
    /\ iFile \in TargetFiles
    /\ iHistory = <<iFile>>
    /\ IdleFilter /\ IdleMatch /\ IdleScan /\ IdleValidate /\ IdleRoutes /\ IdleExtract /\ IdleDeps /\ IdleConsume /\ IdleService /\ IdleScanAll

otherThanIgnoreFile ==
    <<filterVars, matchVars, scanVars, validateVars, routeVars, extractVars, depVars, consumeVars, serviceVars, scanAllVars>>

\* handleInit: if _, err := os.Stat(".taskwignore"); os.IsNotExist(err) {
\*     filter.CreateDefaultTaskwIgnore() }
InitCreates ==
    /\ iOp = "init" /\ Len(iHistory) <= MaxInitRuns
    /\ iFile = <<>>
    /\ iFile' = <<defaultTaskwIgnore>>
    /\ iHistory' = Append(iHistory, iFile')
    /\ UNCHANGED <<iOp, iTemplate, otherThanIgnoreFile>>

\* handleInit: "Using existing .taskwignore".
InitKeeps ==
    /\ iOp = "init" /\ Len(iHistory) <= MaxInitRuns
    /\ iFile # <<>>
    /\ iHistory' = Append(iHistory, iFile)
    /\ UNCHANGED <<iOp, iTemplate, iFile, otherThanIgnoreFile>>

\* combinedContent := string(existingContent) + separator + templateContent
appendTemplate(existing, template) == existing \o appendSeparator \o template

\* createOrAppendTaskwIgnore, the file does not exist: it is created from
\* the template.
ScaffoldCreates ==
    /\ iOp = "scaffold" /\ Len(iHistory) <= MaxInitRuns
    /\ iFile = <<>>
    /\ iFile' = <<iTemplate>>
    /\ iHistory' = Append(iHistory, iFile')
    /\ UNCHANGED <<iOp, iTemplate, otherThanIgnoreFile>>

\* createOrAppendTaskwIgnore, the file exists and holds the marker.
ScaffoldAlreadyPresent ==
    /\ iOp = "scaffold" /\ Len(iHistory) <= MaxInitRuns
    /\ iFile # <<>> /\ Contains(iFile[1], taskwMarker)
    /\ iHistory' = Append(iHistory, iFile)
    /\ UNCHANGED <<iOp, iTemplate, iFile, otherThanIgnoreFile>>

\* createOrAppendTaskwIgnore, the file exists without the marker: separator
\* and template are appended.
ScaffoldAppends ==
    /\ iOp = "scaffold" /\ Len(iHistory) <= MaxInitRuns
    /\ iFile # <<>> /\ ~Contains(iFile[1], taskwMarker)
    /\ iFile' = <<appendTemplate(iFile[1], iTemplate)>>
    /\ iHistory' = Append(iHistory, iFile')
    /\ UNCHANGED <<iOp, iTemplate, otherThanIgnoreFile>>

NextIgnoreFile ==
    \/ InitCreates \/ InitKeeps
    \/ ScaffoldCreates \/ ScaffoldAlreadyPresent \/ ScaffoldAppends

SpecIgnoreFile == InitIgnoreFile /\ [][NextIgnoreFile]_vars

(***************************************************************************)
(* Scanner.ScanAll, ScanRoutes and ScanProviders: the loop over the scan   *)
(* roots, each root scanned by ScanDirectory.                              *)
(***************************************************************************)

MaxScanDirs == 2

\* The source files the disk may hold, named by their path from the
\* directory the command is run in.
DiskFiles ==
    { [FilePath |-> <<"a", "/", "h", ".", "g", "o">>, Package |-> <<"u">>, syntaxOK |-> TRUE,
       decls |-> << FuncDecl(<<"G">>, UHandlerType, <<fiberCtx>>, <<errorType>>,
                             <<routerComment(<<"/", "x">>, <<"g", "e", "t">>)>>),
                    FuncDecl(<<"P", "r", "o", "v", "i", "d", "e", "P">>, <<>>, <<>>,
                             <<<<"*", "P">>>>, <<>>) >>],
      [FilePath |-> <<"a", "/", "b", "/", "k", ".", "g", "o">>, Package |-> <<"o">>, syntaxOK |-> TRUE,
       decls |-> << FuncDecl(<<"L">>, UHandlerType, <<fiberCtx>>, <<errorType>>,
                             <<routerComment(<<"/", "o">>, <<"p", "o", "s", "t">>)>>) >>],
      [FilePath |-> <<"a", "/", "b", "/", "k", "_", "t", "e", "s", "t", ".", "g", "o">>, Package |-> <<"o">>, syntaxOK |-> TRUE,
       decls |-> << FuncDecl(<<"T">>, UHandlerType, <<fiberCtx>>, <<errorType>>,
                             <<routerComment(<<"/", "t">>, <<"g", "e", "t">>)>>) >>],
      [FilePath |-> <<"c", "/", "m", ".", "g", "o">>, Package |-> <<"o">>, syntaxOK |-> FALSE,
       decls |-> << >>] }

\* The directories a configuration may name as scan roots.
ScanRoots == { <<"a">>, <<"a", "/", "b">>, <<"c">> }

\* The same files scanned one after another by a single thread.
RECURSIVE scanOneByOne(_)
scanOneByOne(fs) ==
    IF fs = <<>> THEN emptyScanResult
    ELSE LET before == scanOneByOne(SubSeq(fs, 1, Len(fs) - 1))
             last == fs[Len(fs)]
             r == ScanFile(last)
         IN IF r.err
            THEN [before EXCEPT !.Errors = Append(@, parseError(last.FilePath))]
            ELSE [Handlers |-> before.Handlers \o r.res.Handlers,
                  Routes |-> before.Routes \o r.res.Routes,
                  Providers |-> before.Providers \o r.res.Providers,
                  Errors |-> before.Errors \o r.res.Errors]

\* The reorderings of a sequence.
Reorderings(s) ==
    {[i \in 1..Len(s) |-> s[p[i]]] :
        p \in {q \in [1..Len(s) -> 1..Len(s)] :
                  \A i, j \in 1..Len(s) : i # j => q[i] # q[j]}}

\* filepath.Rel(rootDir, path) for the files of the disk below rootDir.
relPathsBelow(disk, rootDir) ==
    {TrimPrefix(f.FilePath, rootDir \o slash) :
        f \in {g \in disk : HasPrefix(g.FilePath, rootDir \o slash)}}

\* filepath.Walk with the walk function of FindCandidateFiles, on the
\* root-relative paths: pending holds the paths still to be handed over.
RECURSIVE walk(_, _, _)
walk(patterns, relPaths, pending) ==
    IF pending = <<>> THEN <<>>
    ELSE LET n == Head(pending)
         IN IF n = dot \/ n \in Dirs(relPaths)
            THEN IF shouldIgnoreWith(patterns, n)
                 THEN walk(patterns, relPaths, Tail(pending))
                 ELSE walk(patterns, relPaths,
                           SortStrings({m \in relPaths \cup Dirs(relPaths) :
                                           m # dot /\ Parent(m) = n})
                               \o Tail(pending))
            ELSE (IF HasSuffix(n, dotGo) /\ ~shouldIgnoreWith(patterns, n)
                  THEN <<n>> ELSE <<>>)
                     \o walk(patterns, relPaths, Tail(pending))

\* FindCandidateFiles(rootDir): an error when the root does not exist, else
\* the candidates as filepath.Walk names them (rootDir joined with the
\* relative path).
findCandidateFiles(disk, rootDir) ==
    IF relPathsBelow(disk, rootDir) = {}
    THEN [err |-> TRUE, files |-> <<>>]
    ELSE LET found == walk(defaultIgnores, relPathsBelow(disk, rootDir), <<dot>>)
         IN [err |-> FALSE,
             files |-> [i \in DOMAIN found |-> rootDir \o slash \o found[i]]]

\* ScanDirectory(directory) when the root exists: scanFilesParallel merges
\* the candidate files' results whole, in the order the goroutines reach
\* the mutex.
scanDirectoryResults(disk, directory) ==
    LET candidateFiles == findCandidateFiles(disk, directory).files
        sources == [i \in DOMAIN candidateFiles |->
                       CHOOSE f \in disk : f.FilePath = candidateFiles[i]]
    IN {scanOneByOne(order) : order \in Reorderings(sources)}

\* The appends of one loop iteration: ScanAll appends all four collections,
\* ScanRoutes the handlers and routes, ScanProviders the providers.
appendDirResult(call, res, dirResult) ==
    [Handlers |-> IF call \in {"ScanAll", "ScanRoutes"}
                  THEN res.Handlers \o dirResult.Handlers ELSE res.Handlers,
     Routes |-> IF call \in {"ScanAll", "ScanRoutes"}
                THEN res.Routes \o dirResult.Routes ELSE res.Routes,
     Providers |-> IF call \in {"ScanAll", "ScanProviders"}
                   THEN res.Providers \o dirResult.Providers ELSE res.Providers,
     Errors |-> IF call = "ScanAll" THEN res.Errors \o dirResult.Errors ELSE res.Errors]

InitScanAll ==
    /\ aCall \in {"ScanAll", "ScanRoutes", "ScanProviders"}
    /\ aDisk \in SUBSET DiskFiles
    /\ aScanDirs \in SeqsUpTo(ScanRoots, MaxScanDirs)
    /\ aIndex = 1
    /\ aPerRoot = <<>>
    /\ aResult = emptyScanResult
    /\ aPc = "loop"
    /\ IdleFilter /\ IdleMatch /\ IdleScan /\ IdleValidate /\ IdleRoutes /\ IdleExtract /\ IdleDeps /\ IdleConsume /\ IdleService /\ IdleIgnoreFile

otherThanScanAll ==
    <<filterVars, matchVars, scanVars, validateVars, routeVars, extractVars, depVars, consumeVars, serviceVars, ignoreFileVars>>

\* dirResult, err := s.ScanDirectory(dir); if err != nil { return nil, err }
ScanDirectoryFails ==
    /\ aPc = "loop" /\ aIndex <= Len(aScanDirs)
    /\ findCandidateFiles(aDisk, aScanDirs[aIndex]).err
    /\ aResult' = emptyScanResult
    /\ aPc' = "failed"
    /\ UNCHANGED <<aCall, aDisk, aScanDirs, aIndex, aPerRoot, otherThanScanAll>>

\* dirResult, err := s.ScanDirectory(dir); result.X = append(result.X, dirResult.X...)
ScanDirectoryAppends ==
    /\ aPc = "loop" /\ aIndex <= Len(aScanDirs)
    /\ ~findCandidateFiles(aDisk, aScanDirs[aIndex]).err
    /\ \E dirResult \in scanDirectoryResults(aDisk, aScanDirs[aIndex]) :
           /\ aResult' = appendDirResult(aCall, aResult, dirResult)
           /\ aPerRoot' = Append(aPerRoot, dirResult)
    /\ aIndex' = aIndex + 1
    /\ UNCHANGED <<aCall, aDisk, aScanDirs, aPc, otherThanScanAll>>

\* The loop is over: return result, nil.
ScanAllReturns ==
    /\ aPc = "loop" /\ aIndex > Len(aScanDirs)
    /\ aPc' = "returned"
    /\ UNCHANGED <<aCall, aDisk, aScanDirs, aIndex, aPerRoot, aResult, otherThanScanAll>>

NextScanAll == ScanDirectoryFails \/ ScanDirectoryAppends \/ ScanAllReturns

SpecScanAll == InitScanAll /\ [][NextScanAll]_vars

(***************************************************************************)
(* Properties of the parallel aggregator.                                  *)
(***************************************************************************)

\* The multiset of the elements of a sequence.
SeqToBag(s) == [x \in Range(s) |-> Cardinality({i \in DOMAIN s : s[i] = x})]

Count(s, x) == Cardinality({i \in DOMAIN s : s[i] = x})

\* C1: whatever the interleaving of the workers, the returned ScanResult holds
\* the same multiset of handlers, routes, providers and errors as scanning the
\* files one after another: nothing lost, nothing duplicated.
C1_ParallelEqualsSequential ==
    mainPc = "returned" =>
        \A field \in {"Handlers", "Routes", "Providers", "Errors"} :
            SeqToBag(result[field]) = SeqToBag(scanOneByOne(files)[field])

\* The scan has returned after merging the files in another order than the
\* candidate list's.
C1_Witness ==
    /\ mainPc = "returned"
    /\ Len(files) >= 2
    /\ result # scanOneByOne(files)
    /\ result.Handlers # <<>> /\ result.Errors # <<>>

\* C6: under fair scheduling the scan terminates: every worker gets a slot,
\* gives it back and signals completion, and the wait returns.
C6_ScanTerminates ==
    <>(/\ mainPc = "returned"
       /\ \A w \in Workers : pc[w] = "done"
       /\ sem = 0 /\ mu = 0 /\ wg = 0)

\* The scan has returned for a candidate list longer than the pool, one of
\* whose files failed to parse.
C6_Witness ==
    /\ mainPc = "returned"
    /\ Len(files) > semCap
    /\ \E w \in Workers : ~files[w].syntaxOK
    /\ \A w \in Workers : pc[w] = "done"

\* What the declarations of a file would yield if the file parsed.
Declared(file) == scanParsedFile(file)

\* C7: a file whose parse fails contributes exactly one ScanError, of type
\* parse_error, and no handler, route or provider; every record of every
\* other file is in the merged result.
C7_FailureIsolation ==
    mainPc = "returned" =>
        \A w \in Workers :
            LET file == files[w]
            IN IF ~file.syntaxOK
               THEN /\ Cardinality({i \in DOMAIN result.Errors :
                                       result.Errors[i].FilePath = file.FilePath}) = 1
                    /\ \A i \in DOMAIN result.Errors :
                           result.Errors[i].FilePath = file.FilePath
                               => result.Errors[i].Type = "parse_error"
                    /\ \A i \in DOMAIN result.Handlers :
                           result.Handlers[i].FilePath # file.FilePath
                    /\ \A i \in DOMAIN result.Providers :
                           result.Providers[i].FilePath # file.FilePath
                    /\ \A r \in Range(Declared(file).Routes) : r \notin Range(result.Routes)
               ELSE /\ \A i \in DOMAIN result.Errors :
                           result.Errors[i].FilePath # file.FilePath
                    /\ \A field \in {"Handlers", "Routes", "Providers"} :
                           \A x \in Range(Declared(file)[field]) :
                               Count(result[field], x) >= Count(Declared(file)[field], x)

\* The scan has returned; a file with declarations failed to parse before a
\* file that parsed was merged.
C7_Witness ==
    /\ mainPc = "returned"
    /\ \E w \in Workers : ~files[w].syntaxOK /\ files[w].decls # <<>>
    /\ \E w \in Workers : files[w].syntaxOK
    /\ result.Errors # <<>> /\ result.Handlers # <<>>

\* The workers that have written the shared file set.
fsetWriters == {w \in Workers : \E i \in DOMAIN fset : fset[i] = files[w].FilePath}

\* The workers inside the merge critical section.
inCriticalSection == {w \in Workers : pc[w] = "merge"}

\* C17: the only state written by more than one worker is the in-progress
\* ScanResult; every append to it is made by the worker holding the merge
\* mutex, and at most one worker is inside the critical section.
C17_SharedStateDiscipline ==
    /\ [](Cardinality(fsetWriters) <= 1)
    /\ [](Cardinality(inCriticalSection) <= 1)
    /\ [][result' # result => (mu # 0 /\ pc[mu] = "merge" /\ pc'[mu] = "release")]_vars

\* The workers that are parsing.
parsing == {w \in Workers : pc[w] = "scan"}

\* C18: no worker holds the mutex while it parses, and a worker that is about
\* to parse can do so at once, whatever the other workers are doing.
C18_MutexOnlyForMerge ==
    \A w \in Workers : pc[w] = "scan" => (mu # w /\ ENABLED Scan(w))

\* Two workers are parsing at the same time.
C18_Witness == Cardinality(parsing) >= 2

\* The workers between acquiring and releasing a pool slot.
holdingSlot == {w \in Workers : pc[w] \in {"scan", "lock", "merge", "release"}}

\* C19: at most cap(sem) workers, hence at most maxGoroutines, hold a pool
\* slot, however many candidate files there are, and every slot has been
\* released when scanFilesParallel returns.
C19_BoundedParallelism ==
    /\ Cardinality(holdingSlot) = sem
    /\ sem <= semCap /\ semCap <= maxGoroutines
    /\ mainPc = "returned" => sem = 0

\* The pool is full while another worker waits for a slot.
C19_Witness ==
    /\ Cardinality(holdingSlot) = semCap
    /\ \E w \in Workers : pc[w] = "acquire"

\* C20: scanFilesParallel returns only after every worker has finished, and
\* nothing writes the returned ScanResult afterwards.
C20_NoWriteAfterReturn ==
    /\ [](mainPc = "returned" => \A w \in Workers : pc[w] = "done")
    /\ [][mainPc = "returned" => result' = result]_vars

\* The scan of two or more files has returned with their records merged.
C20_Witness ==
    /\ mainPc = "returned"
    /\ Len(files) >= 2
    /\ result.Handlers # <<>>

\* The allow-list of HTTP methods of the extractor.
extractorMethods ==
    { GET, POST, <<"P", "U", "T">>, DELETE, <<"P", "A", "T", "C", "H">>,
      <<"H", "E", "A", "D">>, <<"O", "P", "T", "I", "O", "N", "S">>, TRACE,
      <<"C", "O", "N", "N", "E", "C", "T">> }

\* C28: in the result of a scan every RouteMapping has a HandlerFunction of
\* the same package whose FunctionName is the route's MethodName, and its
\* HTTPMethod is an upper-case member of the extractor's allow-list; so the
\* validator's route keys are all among its handler keys and it reports no
\* route_without_handler.
C28_EveryRouteHasItsHandler ==
    \A i \in DOMAIN result.Routes :
        /\ \E k \in DOMAIN result.Handlers :
               /\ result.Handlers[k].Package = result.Routes[i].Package
               /\ result.Handlers[k].FunctionName = result.Routes[i].MethodName
        /\ result.Routes[i].HTTPMethod \in extractorMethods
        /\ result.Routes[i].HTTPMethod = ToUpper(result.Routes[i].HTTPMethod)
        /\ DOMAIN routeMapOf(result.Routes) \subseteq DOMAIN handlerMapOf(result.Handlers)

\* The scan has returned with the routes of two files, one annotated with a
\* lower-case method, next to a handler without a route.
C28_Witness ==
    /\ mainPc = "returned"
    /\ Len(result.Routes) >= 2
    /\ \E w \in Workers :
           \E d \in DOMAIN files[w].decls :
               /\ files[w].syntaxOK /\ files[w].decls[d].node = "FuncDecl"
               /\ files[w].decls[d].Doc
                      = <<routerComment(<<"/", "x">>, <<"g", "e", "t">>)>>
    /\ DOMAIN handlerMapOf(result.Handlers) # DOMAIN routeMapOf(result.Routes)

\* The scanned files that parsed.
parsedFiles == {files[w] : w \in {v \in Workers : files[v].syntaxOK}}

\* Some parsed file of the package declares a handler interface.
declaresHandlerInterface(pkg) ==
    \E f \in parsedFiles :
        /\ f.Package = pkg
        /\ \E i \in DOMAIN f.decls :
               /\ f.decls[i].node = "TypeSpec" /\ f.decls[i].Type = "interface"
               /\ isHandlerInterface(f.decls[i])

\* Some parsed file of the package declares the implementation struct.
declaresImplementation(pkg, name) ==
    \E f \in parsedFiles :
        /\ f.Package = pkg
        /\ \E i \in DOMAIN f.decls :
               /\ f.decls[i].node = "TypeSpec" /\ f.decls[i].Type = "struct"
               /\ f.decls[i].Name = name /\ isHandlerImplementation(name)

\* The handler methods on implementation structs of the parsed files, as
\* <<package, struct, method>>.
implementationMethods ==
    UNION {{<<f.Package, f.decls[i].Recv, f.decls[i].Name>> :
               i \in {j \in DOMAIN f.decls :
                         /\ f.decls[j].node = "FuncDecl"
                         /\ extractHandler(f.decls[j], f.Package, f.FilePath) # <<>>
                         /\ declaresImplementation(f.Package, f.decls[j].Recv)}} :
           f \in parsedFiles}

\* C23: after a full scan, every handler method on an implementation struct
\* is also present as an interface-addressed HandlerFunction whenever the
\* package has a handler interface, whichever files declare the three.
C23_AssociationOverWholeScan ==
    mainPc = "returned" =>
        \A m \in implementationMethods :
            declaresHandlerInterface(m[1]) =>
                \E k \in DOMAIN result.Handlers :
                    /\ result.Handlers[k].IsInterfaceBased
                    /\ result.Handlers[k].HandlerName = HandlerInterfaceName
                    /\ result.Handlers[k].Package = m[1]
                    /\ result.Handlers[k].FunctionName = m[3]

(***************************************************************************)
(* Properties of the scan over the roots.                                  *)
(***************************************************************************)

\* The candidate files of the configured roots, each named once.
candidateFilesOfRoots ==
    UNION {Range(findCandidateFiles(aDisk, aScanDirs[i]).files) : i \in DOMAIN aScanDirs}

\* The candidate files scanned once each.
scannedOnce ==
    LET sources == {f \in aDisk : f.FilePath \in candidateFilesOfRoots}
    IN scanOneByOne(CHOOSE order \in [1..Cardinality(sources) -> sources] :
                        Range(order) = sources)

\* The per-root results appended in root order.
RECURSIVE appendedInRootOrder(_, _)
appendedInRootOrder(call, perRoot) ==
    IF perRoot = <<>> THEN emptyScanResult
    ELSE appendDirResult(call,
                         appendedInRootOrder(call, SubSeq(perRoot, 1, Len(perRoot) - 1)),
                         perRoot[Len(perRoot)])

\* C30: when ScanAll, ScanRoutes or ScanProviders returns, every candidate
\* file has contributed its records exactly once, also when the roots overlap
\* or are nested, and the result is the per-root results appended in root
\* order.
C30_EachFileOncePerScan ==
    aPc = "returned" =>
        /\ Len(aPerRoot) = Len(aScanDirs)
        /\ aResult = appendedInRootOrder(aCall, aPerRoot)
        /\ \A field \in {"Handlers", "Routes", "Providers", "Errors"} :
               SeqToBag(aResult[field])
                   = SeqToBag(appendDirResult(aCall, emptyScanResult, scannedOnce)[field])

(***************************************************************************)
(* Properties of the validator.                                            *)
(***************************************************************************)

ErrorsOfType(type) == SelectSeq(vResult.Errors, LAMBDA e : e.Type = type)

WarningsOfType(type) == SelectSeq(vResult.Warnings, LAMBDA w : w.Type = type)

\* The routes of the input with the given method and path.
RouteGroup(method, path) ==
    {i \in DOMAIN vInput.Routes :
        vInput.Routes[i].HTTPMethod = method /\ vInput.Routes[i].Path = path}

\* The duplicate_route errors reported for the given method and path.
DuplicateErrorsFor(method, path) ==
    {i \in DOMAIN ErrorsOfType("duplicate_route") :
        ErrorsOfType("duplicate_route")[i].Message.args = <<method \o <<" ">> \o path>>}

\* C4: validateRoutes emits one duplicate_route error per member of every
\* (HTTPMethod, Path) group of size greater than 1 and none for a group of
\* size 1; two handler functions both annotated GET /x yield exactly two.
C4_OneDuplicateErrorPerMember ==
    vPc # "routes" =>
        /\ \A r \in RouteUniverse :
               LET n == Cardinality(RouteGroup(r.HTTPMethod, r.Path))
               IN Cardinality(DuplicateErrorsFor(r.HTTPMethod, r.Path))
                      = IF n > 1 THEN n ELSE 0
        /\ Len(ErrorsOfType("duplicate_route"))
               = Cardinality({i \in DOMAIN vInput.Routes :
                     Cardinality(RouteGroup(vInput.Routes[i].HTTPMethod,
                                            vInput.Routes[i].Path)) > 1})

\* Two distinct handler functions annotated GET /x have been validated and
\* exactly two duplicate_route errors are reported.
C4_Witness ==
    /\ vPc = "done"
    /\ Len(vInput.Routes) = 2
    /\ vInput.Routes[1] # vInput.Routes[2]
    /\ \A i \in 1..2 : vInput.Routes[i].HTTPMethod = GET /\ vInput.Routes[i].Path = <<"/", "x">>
    /\ Len(ErrorsOfType("duplicate_route")) = 2

\* The (package, function name) pairs of the input's handlers and routes.
HandlerPairs == {<<vInput.Handlers[i].Package, vInput.Handlers[i].FunctionName>> :
                    i \in DOMAIN vInput.Handlers}

RoutePairs == {<<vInput.Routes[i].Package, vInput.Routes[i].MethodName>> :
                  i \in DOMAIN vInput.Routes}

\* C5: per package.functionName key, a route without a handler yields exactly
\* one route_without_handler error, a handler without a route exactly one
\* handler_without_route warning (however many HandlerFunction records carry
\* the key) and no error; keys present on both sides yield neither.
C5_CrossReference ==
    vPc = "done" =>
        /\ \A k \in RoutePairs \cup HandlerPairs :
              /\ Cardinality({i \in DOMAIN vResult.Errors :
                     /\ vResult.Errors[i].Type = "route_without_handler"
                     /\ vResult.Errors[i].Message.args = k})
                   = IF k \in RoutePairs \ HandlerPairs THEN 1 ELSE 0
              /\ Cardinality({i \in DOMAIN vResult.Warnings :
                     /\ vResult.Warnings[i].Type = "handler_without_route"
                     /\ vResult.Warnings[i].Message.args = k})
                   = IF k \in HandlerPairs \ RoutePairs THEN 1 ELSE 0
        /\ Len(ErrorsOfType("route_without_handler")) = Cardinality(RoutePairs \ HandlerPairs)
        /\ Len(WarningsOfType("handler_without_route")) = Cardinality(HandlerPairs \ RoutePairs)
        /\ vInput.Routes = <<>> => vResult.Errors = <<>>

\* Validation is done for an input in which a handler key without route
\* occurs in two HandlerFunction records, next to a route without handler.
C5_Witness ==
    /\ vPc = "done"
    /\ \E i, j \in DOMAIN vInput.Handlers :
          /\ i # j
          /\ vInput.Handlers[i] # vInput.Handlers[j]
          /\ handlerKey(vInput.Handlers[i]) = handlerKey(vInput.Handlers[j])
    /\ RoutePairs \ HandlerPairs # {}
    /\ HandlerPairs \ RoutePairs # {}
    /\ Len(WarningsOfType("handler_without_route")) = 1

\* A static segment of the path contains whitespace.
staticSegmentWithWhitespace(path) ==
    LET segments == Split(path, slash)
    IN \E i \in DOMAIN segments :
           /\ ~HasPrefix(segments[i], <<":">>) /\ ~HasPrefix(segments[i], star)
           /\ \E j \in DOMAIN segments[i] : segments[i][j] \in {" ", "\t", "\n", "\r"}

\* C22: a route gets an invalid_route_pattern error if and only if its path
\* does not start with '/', or a static segment contains whitespace, or its
\* method is outside the nine-method allow-list; so no route whose method the
\* extractor accepted is reported for its method.
C22_InvalidPatternIff ==
    vPc # "routes" =>
        /\ Len(ErrorsOfType("invalid_route_pattern"))
               = Cardinality({i \in DOMAIN vInput.Routes :
                     \/ ~HasPrefix(vInput.Routes[i].Path, slash)
                     \/ staticSegmentWithWhitespace(vInput.Routes[i].Path)
                     \/ vInput.Routes[i].HTTPMethod \notin extractorMethods})
        /\ \A i \in DOMAIN vInput.Routes :
               isValidHTTPMethod(vInput.Routes[i].HTTPMethod) =>
                   \A k \in DOMAIN vResult.Errors :
                       vResult.Errors[k].Message
                           # [format |-> "invalid HTTP method: %s",
                              args |-> <<vInput.Routes[i].HTTPMethod>>]

(***************************************************************************)
(* Properties of the route generator.                                      *)
(***************************************************************************)

\* What GenerateRoutes emits for a routes slice.
GeneratedFor(routes) ==
    [Routes |-> sortedRegistrations(organizeRoutesByPackage(routes)),
     Lines |-> registrationLines(sortedRegistrations(organizeRoutesByPackage(routes))),
     Imports |-> generateImports(extractHandlerInfo(routes)),
     Handlers |-> extractHandlerInfo(routes)]

\* C2: GenerateRoutes emits the same registrations, imports and handler list
\* for every reordering of its input.
C2_OutputIndependentOfInputOrder ==
    (gPc = "done" /\ gEnabled) =>
        \A reordered \in Reorderings(gRoutes) : GeneratedFor(reordered) = gOutput

IsParamOrWildcard(segment) ==
    HasPrefix(segment, <<":">>) \/ HasPrefix(segment, <<"{">>) \/ HasPrefix(segment, star)

\* Path b differs from path a only by parameter or wildcard segments where a
\* has static segments: b shadows a in a first-match router.
Shadows(b, a) ==
    LET sa == Split(a, slash)
        sb == Split(b, slash)
    IN /\ Len(sa) = Len(sb)
       /\ a # b
       /\ \A i \in 1..Len(sa) :
              sa[i] # sb[i] => (IsParamOrWildcard(sb[i]) /\ ~IsParamOrWildcard(sa[i])
                                /\ sa[i] # <<>>)

\* C3: no route is registered after a route of the same method that shadows it.
C3_NoRouteAfterItsShadow ==
    (gPc = "done" /\ gEnabled) =>
        \A i, j \in DOMAIN gOutput.Routes :
            (/\ gOutput.Routes[i].HTTPMethod = gOutput.Routes[j].HTTPMethod
             /\ Shadows(gOutput.Routes[j].Path, gOutput.Routes[i].Path))
                => i < j

\* The input routes as the generator registers them: the path converted for
\* Fiber, every other field as it came in.
convertedInput == [i \in 1..Len(gRoutes) |-> [gRoutes[i] EXCEPT !.Path = convertPathForFiber(@)]]

\* The '/'-separated parts of a path without its leading and trailing '/'.
segmentsOf(path) == Split(Trim(path, {"/"}), slash)

\* 1000 per segment, plus 100 per static segment, minus 100 per ':' segment.
specificity(path) ==
    LET segs == segmentsOf(path)
        params == Cardinality({i \in DOMAIN segs : segs[i] # <<>> /\ segs[i][1] = ":"})
    IN 1000 * Len(segs) + 100 * (Len(segs) - params) - 100 * params

\* The sort key: score descending, HTTP method ascending, path ascending.
keyBefore(a, b) ==
    \/ specificity(a.Path) > specificity(b.Path)
    \/ /\ specificity(a.Path) = specificity(b.Path)
       /\ StrLess(a.HTTPMethod, b.HTTPMethod)
    \/ /\ specificity(a.Path) = specificity(b.Path)
       /\ a.HTTPMethod = b.HTTPMethod
       /\ StrLess(a.Path, b.Path)

\* C21: the registrations are emitted in the order of the key (score
\* descending, method ascending, converted path ascending), and the key is a
\* strict total order on routes with distinct (method, converted path).
C21_RegistrationsSortedByKey ==
    (gPc = "done" /\ gEnabled) =>
        LET out == gOutput.Routes
        IN /\ \A i, j \in DOMAIN out : i < j => ~keyBefore(out[j], out[i])
           /\ \A i, j \in DOMAIN out :
                  (out[i].HTTPMethod # out[j].HTTPMethod \/ out[i].Path # out[j].Path)
                      => (keyBefore(out[i], out[j]) # keyBefore(out[j], out[i]))
           /\ \A i \in DOMAIN out : ~keyBefore(out[i], out[i])
           /\ \A i, j, k \in DOMAIN out :
                  (keyBefore(out[i], out[j]) /\ keyBefore(out[j], out[k]))
                      => keyBefore(out[i], out[k])

\* Three routes came in against the key's order: two of them tie on the
\* score and differ in the method, and one has a converted path.
C21_Witness ==
    /\ gPc = "done" /\ gEnabled
    /\ Len(gOutput.Routes) = 3
    /\ gOutput.Routes # convertedInput
    /\ \E i, j \in DOMAIN gOutput.Routes :
           /\ specificity(gOutput.Routes[i].Path) = specificity(gOutput.Routes[j].Path)
           /\ gOutput.Routes[i].HTTPMethod # gOutput.Routes[j].HTTPMethod
    /\ \E i, j \in DOMAIN gOutput.Routes :
           specificity(gOutput.Routes[i].Path) > specificity(gOutput.Routes[j].Path)
    /\ \E i \in DOMAIN gRoutes : gRoutes[i].Path # convertedInput[i].Path

\* C25: for every handler named by the routes, the emitted import path of its
\* package is the module identifier followed by the directory of the
\* package's source file relative to the project root.
C25_ImportPathFromFileLocation ==
    (gPc = "done" /\ gEnabled) =>
        \A i \in DOMAIN gOutput.Handlers :
            \E k \in DOMAIN gOutput.Imports :
                gOutput.Imports[k]
                    = <<"\"">> \o deriveImportPath(handlerFileOf(gOutput.Handlers[i].Package))
                            \o <<"\"">>

\* The router method that registers a handler for exactly one HTTP method.
ownRouterMethod(method) == <<method[1]>> \o ToLower(Tail(method))

\* C29: every emitted route whose HTTPMethod is in the extractor's allow-list
\* (TRACE and CONNECT included) is registered through the router method of
\* exactly that HTTP method.
C29_RegisteredUnderOwnMethod ==
    (gPc = "done" /\ gEnabled) =>
        \A i \in DOMAIN gOutput.Routes :
            gOutput.Routes[i].HTTPMethod \in extractorMethods
                => gOutput.Lines[i].RouterMethod
                       = ownRouterMethod(gOutput.Routes[i].HTTPMethod)

\* C13: the generator emits exactly one registration per input RouteMapping:
\* as many registrations as input routes, none dropped, and routes with the
\* same (HTTPMethod, Path) not collapsed into one.
C13_OneRegistrationPerRoute ==
    (gPc = "done" /\ gEnabled) =>
        /\ Len(gOutput.Routes) = Len(gRoutes)
        /\ SeqToBag(gOutput.Routes) = SeqToBag(convertedInput)

\* Generation is through for an input with two routes of the same method and
\* (converted) path, and both are registered.
C13_Witness ==
    /\ gPc = "done" /\ gEnabled
    /\ \E i, j \in DOMAIN gOutput.Routes :
           /\ i # j
           /\ gOutput.Routes[i].HTTPMethod = gOutput.Routes[j].HTTPMethod
           /\ gOutput.Routes[i].Path = gOutput.Routes[j].Path
           /\ gOutput.Routes[i].HandlerRef # gOutput.Routes[j].HandlerRef
    /\ \E i \in DOMAIN gRoutes : gRoutes[i].Path # convertedInput[i].Path


(***************************************************************************)
(* Properties of the dependency generator.                                 *)
(***************************************************************************)

\* What GenerateDependencies hands to the template for an input.
DependenciesFor(providers) ==
    [Groups |-> emittedProviderRefs(organizeProvidersByPackage(providers)),
     byPackage |-> organizeProvidersByPackage(providers),
     Imports |-> generateDependencyImports(providers)]

\* s is in ascending order under StrLess (equal neighbours allowed).
Ascending(s) == \A i \in 1..(Len(s) - 1) : ~StrLess(s[i + 1], s[i])

\* C14: for every reordering of the providers, each package's providers are
\* emitted in ascending function-name order, the package groups in ascending
\* package-name order, and the import list and the emitted references are
\* the ones of the original order.
C14_DependenciesIndependentOfInputOrder ==
    (dPc = "done" /\ dEnabled) =>
        \A reordered \in Reorderings(dProviders) :
            LET out == DependenciesFor(reordered)
            IN /\ \A pkg \in DOMAIN out.byPackage :
                      Ascending([k \in 1..Len(out.byPackage[pkg]) |->
                                    out.byPackage[pkg][k].FunctionName])
               /\ Ascending([i \in 1..Len(out.Groups) |-> out.Groups[i].Package])
               /\ out.Imports = dOutput.Imports
               /\ out.Groups = dOutput.Groups

\* Generation is through for providers of two packages that came in against
\* the function-name order and against the package-name order.
C14_Witness ==
    /\ dPc = "done" /\ dEnabled
    /\ Len(dOutput.Groups) >= 2
    /\ Len(dOutput.Imports) >= 3
    /\ \E i, j \in DOMAIN dProviders :
           /\ i < j
           /\ dProviders[i].Package = dProviders[j].Package
           /\ StrLess(dProviders[j].FunctionName, dProviders[i].FunctionName)
    /\ \E i, j \in DOMAIN dProviders :
           i < j /\ StrLess(dProviders[j].Package, dProviders[i].Package)

(***************************************************************************)
(* Properties of the consumers.                                            *)
(***************************************************************************)

\* C15: the consumers never mutate the completed ScanResult: the handler,
\* route and provider collections they were given keep their elements, in
\* the same order, with the same field values (route paths are not rewritten
\* in place by path normalization), and ValidateScanResult is never stuck
\* before it returns its result.
C15_ConsumersLeaveScanResultAlone ==
    /\ vInput.Handlers = cScan.Handlers
    /\ vInput.Routes = cScan.Routes
    /\ gRoutes = cScan.Routes
    /\ dProviders = cScan.Providers
    /\ (vPc # "done" => ENABLED NextValidate)
    /\ (vPc = "done" => DOMAIN vResult = {"Errors", "Warnings"})

\* The three consumers have returned; a route path was normalized for the
\* registrations, and the validator reported on the input.
C15_Witness ==
    /\ vPc = "done" /\ gPc = "done" /\ dPc = "done" /\ gEnabled /\ dEnabled
    /\ \E i \in DOMAIN cScan.Routes : Contains(cScan.Routes[i].Path, <<"{">>)
    /\ \A i \in DOMAIN gOutput.Routes : ~Contains(gOutput.Routes[i].Path, <<"{">>)
    /\ Len(cScan.Providers) = 2 /\ cScan.Providers # dOutput.ProvidersByPackage[<<"u">>]
    /\ vResult.Warnings # <<>>

\* C27: whenever two routes of the scan have the same HTTP method and the
\* same path after the '{name}' to ':name' conversion, so that the generator
\* emits two registrations of one method and path, the validator has
\* reported each of them as duplicate_route.
C27_ValidatorAndGeneratorAgree ==
    (vPc = "done" /\ gPc = "done" /\ gEnabled) =>
        \A i, j \in DOMAIN cScan.Routes :
            (/\ i # j
             /\ cScan.Routes[i].HTTPMethod = cScan.Routes[j].HTTPMethod
             /\ convertPathForFiber(cScan.Routes[i].Path)
                    = convertPathForFiber(cScan.Routes[j].Path)
             /\ \E a, b \in DOMAIN gOutput.Routes :
                    /\ a # b
                    /\ gOutput.Routes[a].HTTPMethod = gOutput.Routes[b].HTTPMethod
                    /\ gOutput.Routes[a].Path = gOutput.Routes[b].Path)
                => \E k \in DOMAIN vResult.Errors :
                       /\ vResult.Errors[k].Type = "duplicate_route"
                       /\ vResult.Errors[k].Message.args
                              = <<cScan.Routes[i].HTTPMethod \o <<" ">> \o cScan.Routes[i].Path>>

(***************************************************************************)
(* Properties of the generation service.                                   *)
(***************************************************************************)

\* C16: every invocation of route generation ends with the route output file
\* written from the current scan, or with a failure reported to the caller:
\* it never returns success without writing the file.
C16_WrittenOrFailureReported ==
    sPc = "returned" =>
        \/ sReturn = "error"
        \/ (sReturn = "nil" /\ fsFile.state = "written")

(***************************************************************************)
(* Properties of the ignore-file materialisation.                          *)
(***************************************************************************)

\* C26: an existing ignore file keeps its content (every later content
\* starts with it), and a second run leaves the file as the first run left
\* it, for every initial content and every template.
C26_MaterialiseIsIdempotent ==
    /\ \A k \in 2..Len(iHistory) :
           iHistory[1] # <<>> =>
               (iHistory[k] # <<>> /\ HasPrefix(iHistory[k][1], iHistory[1][1]))
    /\ Len(iHistory) >= 3 => iHistory[3] = iHistory[2]

(***************************************************************************)
(* Properties of the ignore-pattern filter.                                *)
(***************************************************************************)

LastSegment(path) == Split(path, slash)[Len(Split(path, slash))]

vendorDir == <<"v", "e", "n", "d", "o", "r">>

\* A pattern "**/*<literal>": any depth, final segment ending in <literal>.
IsAnyDepthGlob(pattern) ==
    /\ HasPrefix(pattern, <<"*", "*", "/", "*">>)
    /\ ~Contains(SubSeq(pattern, 5, Len(pattern)), star)
    /\ ~Contains(SubSeq(pattern, 5, Len(pattern)), slash)

\* C8: a pattern '**/<glob>' matches a root-relative path exactly when the
\* path's final segment matches <glob>, at any directory depth: '**/*_test.go'
\* matches 'a/b/c_test.go' and 'c_test.go' and not 'c_test.go.bak'.
C8_AnyDepthGlobMatchesFinalSegment ==
    (mPc = "done" /\ IsAnyDepthGlob(mPattern))
        => (mResult <=> HasSuffix(LastSegment(mPath), SubSeq(mPattern, 5, Len(mPattern))))

\* A pattern "<dir>/**" whose <dir> has no wildcard.
IsDirGlob(pattern) ==
    /\ HasSuffix(pattern, <<"/", "*", "*">>)
    /\ ~Contains(SubSeq(pattern, 1, Len(pattern) - 3), star)

\* C9: a pattern '<dir>/**' matches a root-relative path if and only if the
\* path is <dir> itself or lies underneath '<dir>/'.
C9_DirGlobRespectsSegments ==
    (mPc = "done" /\ IsDirGlob(mPattern))
        => LET dir == SubSeq(mPattern, 1, Len(mPattern) - 3)
           IN mResult <=> (mPath = dir \/ HasPrefix(mPath, dir \o slash))

\* C10: the walk never visits, and never returns, anything below a directory
\* whose root-relative path matches an ignore pattern.
C10_PrunedSubtreeNeverVisited ==
    \A n \in visited \cup Range(candidates) :
        \A d \in Ancestors(n) : ~shouldIgnore(d)

\* The walk has returned, the tree holds vendor/x/y.go, the walk function was
\* called on vendor and on nothing below it.
C10_Witness ==
    /\ walkPc = "returned"
    /\ (vendorDir \o <<"/", "x", "/", "y", ".", "g", "o">>) \in tree
    /\ vendorDir \in visited
    /\ shouldIgnore(vendorDir)
    /\ (vendorDir \o <<"/", "x">>) \notin visited

\* The source files of the tree that no ignore pattern matches, each checked
\* on its own root-relative path.
unignoredSourceFiles ==
    {f \in tree : HasSuffix(f, dotGo) /\ ~shouldIgnore(f)}

\* C11: FindCandidateFiles returns exactly the .go files under the root whose
\* root-relative path is matched by no ignore pattern: the pruned walk returns
\* the same set as checking every file individually against the patterns.
C11_PrunedWalkEqualsPerFileCheck ==
    walkPc = "returned" => Range(candidates) = unignoredSourceFiles

(***************************************************************************)
(* Properties of the extractor.                                            *)
(***************************************************************************)

\* The function declarations of the file ScanFile ran on.
FuncDeclsOf(file) == SelectSeq(file.decls, LAMBDA n : n.node = "FuncDecl")

\* C12: a file with one handler method whose doc comment is the single line
\* '@Router <path> [<method>]', <method> in the allow-list in any letter case,
\* yields exactly one HandlerFunction and exactly one RouteMapping, with the
\* upper-cased method and the unchanged path; a function that is not a
\* handler yields no RouteMapping, and a handler function at most one.
C12_OneHandlerOneRoute ==
    xPc = "done" =>
        LET fns == FuncDeclsOf(xFile)
            handlerFns == SelectSeq(fns, LAMBDA fn :
                              extractHandler(fn, xFile.Package, xFile.FilePath) # <<>>)
        IN /\ (/\ Len(handlerFns) = 1
               /\ xFile.annotated
               /\ isValidHTTPMethod(ToUpper(xFile.method)))
                  => /\ Len(xResult.Handlers) = 1
                     /\ Len(xResult.Routes) = 1
                     /\ xResult.Routes[1].HTTPMethod = ToUpper(xFile.method)
                     /\ xResult.Routes[1].Path = xFile.path
           /\ Len(xResult.Routes) <= Len(handlerFns)

\* C24: a function declaration is recorded as a ProviderFunction if and only
\* if it has no receiver, its name starts with Provide and its first return
\* value has a type that can be spelled; a method is never a provider.
C24_ProviderIffFreeFunction ==
    (xPc = "done" /\ xFile.syntaxOK) =>
        \A i \in 1..Len(FuncDeclsOf(xFile)) :
            LET fn == FuncDeclsOf(xFile)[i]
            IN (\E k \in DOMAIN xResult.Providers :
                    xResult.Providers[k].FunctionName = fn.Name)
               <=> (/\ fn.Recv = <<>>
                    /\ HasPrefix(fn.Name, <<"P", "r", "o", "v", "i", "d", "e">>)
                    /\ fn.Results # <<>>
                    /\ fn.Results[1] # <<>>)

====
